---------------------------- MODULE Spec2Model ----------------------------
(***************************************************************************)
(* Model of the retrieval-augmented-generation pipeline of src/src/rag:    *)
(* the text chunker, the document cache, the document processor with the   *)
(* vector-store connectors behind the manager, the context enhancer and    *)
(* the query engine.                                                       *)
(*                                                                         *)
(* Python strings are sequences of one-character strings; offsets in the   *)
(* comments are Python's (0-based), sequence positions are 1-based.        *)
(***************************************************************************)
EXTENDS Integers, Sequences, FiniteSets, TLC

VARIABLES
    \* ---- TextChunker.chunk_text, one call, step by step
    c_text,        \* the text argument
    c_size,        \* self.chunk_size
    c_overlap,     \* self.chunk_overlap
    c_start,       \* local start
    c_chunks,      \* local chunks (the returned list once c_pc = "done")
    c_spans,       \* ghost: <<start, split_point>> of every appended chunk
    c_pc,          \* "call" | "loop" | "done" | "idle"
    \* ---- ContextEnhancer.enhance, one call
    e_query,       \* the query argument
    e_docs,        \* the retrieved_docs argument
    e_max,         \* self.max_context_length
    e_out,         \* the returned context
    e_pc,          \* "call" | "done" | "idle"
    \* ---- document pipeline: DocumentCache, EmbeddingService, VectorDBManager,
    \*      the connectors' backends, DocumentProcessor
    now,               \* time.time(), in whole seconds
    cache_enabled,     \* settings.cache_enabled (DocumentProcessor.cache is set)
    cache_files,       \* the cache directory: doc id -> file content
    current_model,     \* EmbeddingService.current_model: provider name or "none"
    current_connector, \* VectorDBManager.current_connector: [kind, is_connected]
    db_type,           \* VectorDBManager.db_type
    backends,          \* per backend: [exists, items] (collection / index)
    last,              \* the last completed call: arguments, result, what it did
    \* ---- DocumentProcessor.query / RAGQueryEngine.query, one call
    q_op,          \* "idle" | "processor_query" | "engine_query" (returned)
    q_top_k,       \* the top_k argument
    q_lists,       \* what the connector's query returned, per query variant
    q_docs,        \* the returned list ('documents' of the engine's result)
    q_result,      \* the other keys of the engine's result
    q_failed,      \* ghost: every embedding and every store call of it failed
    \* ---- EmbeddingService on its own
    model_type,    \* EmbeddingService.model_type
    emb_call,      \* the last completed call of the service
    \* ---- VectorDBManager on its own: switch_db step by step
    m_pc,          \* "idle" | "disconnect" | "create" | "connect"
    m_name,        \* the db_type argument of the running switch_db
    m_dropped,     \* the connectors the manager created and no longer holds
    m_call,        \* the last completed call of the manager
    \* ---- a connector on its own
    k_call,        \* the last completed call of the connector
    \* ---- QueryProcessor.process_query / expand_query, one call
    p_query,       \* the query argument
    p_expand,      \* self.expand_queries
    p_out,         \* the returned list (process_query: its one string)
    p_pc,          \* "call" | "processed" | "expanded" | "idle"
    \* ---- two process_document calls with the same arguments, step by step
    cc_doc,        \* the arguments: <<text, metadata>>
    cc_pc,         \* per call: "check" | "embed" | "upsert" | "cache" | "done"
    cc_local,      \* per call: its chunks with embeddings, its returned list
    cc_upserts,    \* ghost: the calls in the order of their upserts
    \* ---- a query in flight while switch_db / set_model run
    r_objs,        \* the connector objects the manager has created, in order
    r_cur,         \* the manager's current_connector: an index of r_objs
    r_sw,          \* the switch: its position, its argument, the type before
    r_q,           \* the query: its position, what it has read, its results
    \* ---- the metadata PineconeConnector.store_embeddings builds for one document
    f_doc,         \* the document: its text and its metadata (ordered pairs)
    f_out,         \* the metadata of the vector passed to the backend
    f_pc,          \* "idle" | "call" | "done"
    \* ---- one DocumentProcessor.process_documents(list) call, step by step
    b_docs,        \* the documents of the call; id = NoId: no 'id' key
    b_cache,       \* whether the processor has a cache
    b_pc,          \* "idle" | "call" | "chunked" | "embedded" | "stored" | "cached" | "done"
    b_chunked,     \* chunked_docs
    b_ids,         \* doc_ids
    b_trace        \* ghost: the calls made to the embedding service, the store and the cache

chunkVars == <<c_text, c_size, c_overlap, c_start, c_chunks, c_spans, c_pc>>

enhVars == <<e_query, e_docs, e_max, e_out, e_pc>>

pipeVars == <<now, cache_enabled, cache_files, current_model,
              current_connector, db_type, backends, last>>

queryVars == <<q_op, q_top_k, q_lists, q_docs, q_result, q_failed>>

embedVars == <<model_type, emb_call>>

mgrVars == <<m_pc, m_name, m_dropped, m_call>>

connVars == <<k_call>>

qpVars == <<p_query, p_expand, p_out, p_pc>>

ccVars == <<cc_doc, cc_pc, cc_local, cc_upserts>>

raceVars == <<r_objs, r_cur, r_sw, r_q>>

flatVars == <<f_doc, f_out, f_pc>>

batchVars == <<b_docs, b_cache, b_pc, b_chunked, b_ids, b_trace>>

vars == <<chunkVars, enhVars, pipeVars, queryVars, embedVars,
         mgrVars,
         connVars,
         qpVars,
         ccVars,
         raceVars,
         flatVars,
         batchVars>>

------------------------------------------------------------------------------
(* Generic helpers *)

Min(a, b) == IF a <= b THEN a ELSE b

Max(a, b) == IF a >= b THEN a ELSE b

SetMax(S) == CHOOSE x \in S : \A y \in S : y <= x

\* n copies of character ch
Rep(ch, n) == [i \in 1..n |-> ch]

\* Python slice s[a:b] for 0 <= a, 0 <= b (empty when b <= a)
Slice(s, a, b) == SubSeq(s, a + 1, Min(b, Len(s)))

\* Python slice s[a:]
SliceFrom(s, a) == SubSeq(s, a + 1, Len(s))

\* All sequences over S of length 0..n
SeqsUpTo(S, n) == UNION {[1..k -> S] : k \in 0..n}

NL == "\n"

------------------------------------------------------------------------------
(* TextChunker (src/src/rag/document/chunker.py) *)

\* bounds of the small-text regime
MaxTextLen == 5
MaxChunkSize == 3

\* the look-back window of _find_split_point
LookBack == 100

\* Settings defaults CHUNK_SIZE / CHUNK_OVERLAP
DefaultChunkSize == 1000
DefaultChunkOverlap == 200

ChunkAlphabet == {"a", ".", " ", NL}

\* the condition of the if inside _find_split_point's loop, at Python index i
IsSplitAt(text, i) ==
    /\ i < Len(text)
    /\ \/ /\ text[i] = "."
          /\ (i = Len(text) \/ text[i + 1] \in {" ", NL})
       \/ text[i] = NL

\* _find_split_point: the loop runs i = end, end-1, ..., end-look_back+1 and
\* returns the first (largest) i that satisfies the condition, else end.
find_split_point(text, end) ==
    LET look_back == Min(LookBack, end)
        hits == {i \in (end - look_back + 1)..end : IsSplitAt(text, i)}
    IN  IF hits = {} THEN end ELSE SetMax(hits)

\* mutant: the overlap is added instead of subtracted
next_start_added(split_point, overlap) == split_point + overlap

\* start = split_point - self.chunk_overlap; if start < 0: start = 0
next_start(split_point, overlap) ==
    IF split_point - overlap < 0 THEN 0 ELSE split_point - overlap

\* mutant: the slice takes one character past the split point
window_chunk_long(text, start, split_point) == Slice(text, start, split_point + 1)

\* the chunk appended for the window that starts at start and does not reach
\* end-of-text: text[start:split_point]
window_chunk(text, start, split_point) == Slice(text, start, split_point)

\* mutant: no check for the empty text
short_result_noempty(text, size) == << text >>

\* the early returns of chunk_text: empty text, text that fits one chunk
short_result(text, size) ==
    IF Len(text) = 0 THEN << >>
    ELSE << text >>

\* Texts of the large regime: a run of "a" with one optional newline, long
\* enough that the look-back window is the full LookBack characters.
LongText(n, p) == [i \in 1..n |-> IF i = p THEN NL ELSE "a"]

ScenarioText == Rep("A", DefaultChunkSize + DefaultChunkSize \div 2)

ChunkInputs ==
    \* small regime: every text over the alphabet, every configuration with
    \* 0 <= chunk_overlap < chunk_size
    {<<t, s, o>> : t \in SeqsUpTo(ChunkAlphabet, MaxTextLen),
                   s \in 1..MaxChunkSize, o \in 0..(MaxChunkSize - 1)}
    \cup
    \* large regime: chunk_size >= LookBack
    {<<LongText(n, p), LookBack + 20, o>> :
        n \in {LookBack + 20, 2 * LookBack + 50},
        p \in {0, LookBack - 10, LookBack + 10, LookBack + 20},
        o \in {0, 30}}
    \cup
    \* the documented scenario: 1500 characters, defaults 1000 / 200
    {<<ScenarioText, DefaultChunkSize, DefaultChunkOverlap>>}

ChunkIdle ==
    /\ c_text = << >>
    /\ c_size = 1
    /\ c_overlap = 0
    /\ c_start = 0
    /\ c_chunks = << >>
    /\ c_spans = << >>
    /\ c_pc = "idle"

ChunkInit ==
    /\ \E inp \in ChunkInputs :
          /\ inp[3] < inp[2]
          /\ c_text = inp[1]
          /\ c_size = inp[2]
          /\ c_overlap = inp[3]
    /\ c_start = 0
    /\ c_chunks = << >>
    /\ c_spans = << >>
    /\ c_pc = "call"

\* chunk_text up to the loop: the two early returns, or chunks = [], start = 0
ChunkEnter ==
    /\ c_pc = "call"
    /\ IF Len(c_text) = 0 \/ Len(c_text) <= c_size
       THEN /\ c_chunks' = short_result(c_text, c_size)
            /\ c_spans' = IF Len(c_text) = 0 THEN << >>
                          ELSE << <<0, Len(c_text)>> >>
            /\ c_pc' = "done"
       ELSE /\ c_pc' = "loop"
            /\ UNCHANGED <<c_chunks, c_spans>>
    /\ c_start' = 0
    /\ UNCHANGED <<c_text, c_size, c_overlap>>

\* one loop iteration whose window reaches end-of-text: append text[start:], break
ChunkRemainder ==
    /\ c_pc = "loop"
    /\ c_start < Len(c_text)
    /\ c_start + c_size >= Len(c_text)
    /\ c_chunks' = Append(c_chunks, SliceFrom(c_text, c_start))
    /\ c_spans' = Append(c_spans, <<c_start, Len(c_text)>>)
    /\ c_pc' = "done"
    /\ UNCHANGED <<c_text, c_size, c_overlap, c_start>>

\* one loop iteration whose window ends before end-of-text: split and advance.
\* A call whose start repeats never returns; the model stops following it once
\* it has appended more chunks than the text has offsets.
ChunkSplit ==
    /\ c_pc = "loop"
    /\ c_start < Len(c_text)
    /\ c_start + c_size < Len(c_text)
    /\ Len(c_chunks) <= Len(c_text)
    /\ LET split_point == find_split_point(c_text, c_start + c_size)
       IN  /\ c_chunks' = Append(c_chunks, window_chunk(c_text, c_start, split_point))
           /\ c_spans' = Append(c_spans, <<c_start, split_point>>)
           /\ c_start' = next_start(split_point, c_overlap)
    /\ UNCHANGED <<c_text, c_size, c_overlap, c_pc>>

\* (the while condition start < len(text) cannot fail after an iteration:
\* split_point <= end < len(text), so the loop only leaves through the break)

------------------------------------------------------------------------------
(* ContextEnhancer (src/src/rag/query/enhancer.py) *)

\* bound: number of retrieved documents handed to enhance
MaxDocs == 2

\* "if available_length > 100"
TruncationFloor == 100

S_Query == <<"Q", "u", "e", "r", "y", ":", " ">>
S_NoDocs == <<"N", "o", " ", "r", "e", "l", "e", "v", "a", "n", "t", " ", "d", "o", "c", "u", "m", "e", "n", "t", "s", " ", "f", "o", "u", "n", "d", ".">>
S_Relevant == <<"R", "e", "l", "e", "v", "a", "n", "t", " ", "i", "n", "f", "o", "r", "m", "a", "t", "i", "o", "n", ":">>
S_Document == <<"D", "o", "c", "u", "m", "e", "n", "t", " ">>
S_ScoreOpen == <<" ", "(", "S", "c", "o", "r", "e", ":", " ">>
S_ScoreClose == <<")", ":">>
S_Source == <<"S", "o", "u", "r", "c", "e", ":", " ">>
S_Title == <<"T", "i", "t", "l", "e", ":", " ">>
S_Content == <<"C", "o", "n", "t", "e", "n", "t", ":", " ">>
S_Ellipsis == <<".", ".", ".">>

DigitChars == <<"0", "1", "2", "3", "4", "5", "6", "7", "8", "9">>

\* str(n) for a natural number n
RECURSIVE Digits(_)
Digits(n) ==
    IF n < 10 THEN << DigitChars[n + 1] >>
    ELSE Digits(n \div 10) \o << DigitChars[(n % 10) + 1] >>

\* f"{score:.2f}"; a score is held in hundredths (95 is 0.95, -5 is -0.05)
Fmt2(h) ==
    LET a == IF h < 0 THEN 0 - h ELSE h
    IN  (IF h < 0 THEN << "-" >> ELSE << >>)
        \o Digits(a \div 100) \o << "." >>
        \o << DigitChars[((a % 100) \div 10) + 1], DigitChars[(a % 10) + 1] >>

\* whether pat occurs in s at position i
OccursAt(s, pat, i) ==
    /\ i + Len(pat) - 1 <= Len(s)
    /\ SubSeq(s, i, i + Len(pat) - 1) = pat

\* str.replace(old, new) for non-empty old: every non-overlapping occurrence,
\* left to right
RECURSIVE ReplaceFrom(_, _, _, _)
ReplaceFrom(s, old, new, i) ==
    IF i > Len(s) THEN << >>
    ELSE IF OccursAt(s, old, i)
         THEN new \o ReplaceFrom(s, old, new, i + Len(old))
         ELSE << s[i] >> \o ReplaceFrom(s, old, new, i + 1)

\* the no-results message: f"Query: {query}\n\nNo relevant documents found."
no_results(query) == S_Query \o query \o << NL, NL >> \o S_NoDocs

\* context before the loop: f"Query: {query}\n\n" + "Relevant information:\n\n"
context_header(query) ==
    S_Query \o query \o << NL, NL >> \o S_Relevant \o << NL, NL >>

\* doc_info for the document at 0-based index i (before any truncation)
doc_info(i, doc) ==
    S_Document \o Digits(i + 1) \o S_ScoreOpen \o Fmt2(doc.score)
        \o S_ScoreClose \o << NL >>
        \o (IF doc.source # << >> THEN S_Source \o doc.source \o << NL >> ELSE << >>)
        \o (IF doc.title # << >> THEN S_Title \o doc.title \o << NL >> ELSE << >>)
        \o S_Content \o doc.text \o << NL, NL >>

\* available_length = max_context_length - len(context) - len(doc_info) + len(text)
available_length(maxlen, context, info, text) ==
    maxlen - Len(context) - Len(info) + Len(text)

\* the overflow branch: doc_info with the content truncated, when more than
\* TruncationFloor characters are available; nothing otherwise
truncated_info(info, text, available) ==
    IF available > TruncationFloor
    THEN ReplaceFrom(info, S_Content \o text,
                     S_Content \o Slice(text, 0, available) \o S_Ellipsis, 1)
    ELSE << >>

\* the for loop of enhance from the document at position i (1-based) on
RECURSIVE enhance_loop(_, _, _, _)
enhance_loop(docs, i, context, maxlen) ==
    IF i > Len(docs) THEN context
    ELSE LET info == doc_info(i - 1, docs[i])
         IN  IF Len(context \o info) > maxlen
             THEN context \o truncated_info(info, docs[i].text,
                      available_length(maxlen, context, info, docs[i].text))
             ELSE enhance_loop(docs, i + 1, context \o info, maxlen)

\* the loop entered also without documents
enhance_unchecked(query, docs, maxlen) ==
    enhance_loop(docs, 1, context_header(query), maxlen)

\* ContextEnhancer.enhance
enhance(query, docs, maxlen) ==
    IF docs = << >> THEN no_results(query)
    ELSE enhance_loop(docs, 1, context_header(query), maxlen)

\* a retrieved document: id, score (hundredths), text, metadata source / title
\* (the empty string when the key is missing)
Doc(id, score, text, source, title) ==
    [id |-> id, score |-> score, text |-> text, source |-> source, title |-> title]

EnhDocPool ==
    { Doc("d1", 95, << "h", "i", "." >>, << "s" >>, << "t" >>),
      Doc("d2", 0 - 5, << "n", "o" >>, << >>, << >>),
      Doc("d3", 80, Rep("x", TruncationFloor + 30), << "s" >>, << >>),
      Doc("d4", 50, Rep("y", 2 * TruncationFloor + 50), << >>, << >>),
      Doc("d5", 100, << >>, << >>, << "t" >>) }

EnhQueries == { << "q" >>, << "w", "h", "o", "?" >> }

\* budgets around the point where the first document's available length is
\* TruncationFloor, and a roomy one
EnhBudgets ==
    ((TruncationFloor + 69)..(TruncationFloor + 72))
        \cup { TruncationFloor \div 2, 3 * TruncationFloor }

EnhIdle ==
    /\ e_query = << >>
    /\ e_docs = << >>
    /\ e_max = 0
    /\ e_out = << >>
    /\ e_pc = "idle"

EnhInit ==
    /\ e_query \in EnhQueries
    /\ e_docs \in SeqsUpTo(EnhDocPool, MaxDocs)
    /\ e_max \in EnhBudgets
    /\ e_out = << >>
    /\ e_pc = "call"

EnhanceCall ==
    /\ e_pc = "call"
    /\ e_out' = enhance(e_query, e_docs, e_max)
    /\ e_pc' = "done"
    /\ UNCHANGED <<e_query, e_docs, e_max>>

------------------------------------------------------------------------------
(* QueryProcessor (src/src/rag/query/processor.py)                         *)

\* what \s matches
Whitespace == {" ", "\t", NL, "\r"}

LowerLetters ==
    {"a", "b", "c", "d", "e", "f", "g", "h", "i", "j", "k", "l", "m",
     "n", "o", "p", "q", "r", "s", "t", "u", "v", "w", "x", "y", "z"}

\* str.lower() on the letters A-Z
UpperToLower ==
    "A" :> "a" @@ "B" :> "b" @@ "C" :> "c" @@ "D" :> "d" @@ "E" :> "e" @@ "F" :> "f"
        @@ "G" :> "g" @@ "H" :> "h" @@ "I" :> "i" @@ "J" :> "j" @@ "K" :> "k" @@ "L" :> "l"
        @@ "M" :> "m" @@ "N" :> "n" @@ "O" :> "o" @@ "P" :> "p" @@ "Q" :> "q" @@ "R" :> "r"
        @@ "S" :> "s" @@ "T" :> "t" @@ "U" :> "u" @@ "V" :> "v" @@ "W" :> "w" @@ "X" :> "x"
        @@ "Y" :> "y" @@ "Z" :> "z"

DecimalDigits == {"0", "1", "2", "3", "4", "5", "6", "7", "8", "9"}

\* what \w matches
WordChars ==
    LowerLetters \cup DOMAIN UpperToLower \cup DecimalDigits \cup {"_"}

\* re.sub(r'\s+', ' ', s): every run of whitespace becomes one space
RECURSIVE collapse_whitespace(_)
collapse_whitespace(s) ==
    IF s = << >> THEN << >>
    ELSE IF Head(s) \in Whitespace
    THEN IF Len(s) > 1 /\ s[2] \in Whitespace
         THEN collapse_whitespace(Tail(s))
         ELSE << " " >> \o collapse_whitespace(Tail(s))
    ELSE << Head(s) >> \o collapse_whitespace(Tail(s))

\* the number of leading whitespace characters of s
RECURSIVE leading_whitespace(_)
leading_whitespace(s) ==
    IF s = << >> \/ Head(s) \notin Whitespace THEN 0
    ELSE 1 + leading_whitespace(Tail(s))

\* the number of trailing whitespace characters of s
RECURSIVE trailing_whitespace(_)
trailing_whitespace(s) ==
    IF s = << >> \/ s[Len(s)] \notin Whitespace THEN 0
    ELSE 1 + trailing_whitespace(SubSeq(s, 1, Len(s) - 1))

\* str.strip()
strip(s) ==
    IF leading_whitespace(s) = Len(s) THEN << >>
    ELSE SubSeq(s, leading_whitespace(s) + 1, Len(s) - trailing_whitespace(s))

\* re.sub(r'[^\w\s\?\.]', ' ', s): every other character becomes a space
replace_special(s) ==
    [i \in 1..Len(s) |->
        IF s[i] \in WordChars \cup Whitespace \cup {"?", "."} THEN s[i] ELSE " "]

\* str.lower()
lower(s) ==
    [i \in 1..Len(s) |->
        IF s[i] \in DOMAIN UpperToLower THEN UpperToLower[s[i]] ELSE s[i]]

\* QueryProcessor.process_query
process_query(query) ==
    IF query = << >> THEN << >>
    ELSE lower(replace_special(strip(collapse_whitespace(query))))

\* "question_words = [...]", in the order of the loop
QuestionWords ==
    <<<<"w", "h", "a", "t">>,
      <<"w", "h", "o">>,
      <<"w", "h", "e", "r", "e">>,
      <<"w", "h", "e", "n">>,
      <<"w", "h", "y">>,
      <<"h", "o", "w">>>>

\* the alternatives of the pattern, in its order
AuxiliaryWords ==
    <<<<"i", "s">>,
      <<"a", "r", "e">>,
      <<"w", "a", "s">>,
      <<"w", "e", "r", "e">>,
      <<"d", "o">>,
      <<"d", "o", "e", "s">>,
      <<"d", "i", "d">>>>

\* "common_words = [...]"
CommonWords ==
    {<<"t", "h", "e">>,
     <<"a">>,
     <<"a", "n">>,
     <<"a", "n", "d">>,
     <<"o", "r">>,
     <<"b", "u", "t">>,
     <<"i", "n">>,
     <<"o", "n">>,
     <<"a", "t">>,
     <<"t", "o">>,
     <<"f", "o", "r">>,
     <<"w", "i", "t", "h">>,
     <<"b", "y">>,
     <<"a", "b", "o", "u", "t">>}

\* str.startswith
startswith(s, prefix) ==
    Len(s) >= Len(prefix) /\ SubSeq(s, 1, Len(prefix)) = prefix

\* the length of the match of '^{word}\s+(is|are|...)\s+' at the start of s,
\* 0 when the pattern does not match: the word, a run of whitespace, the
\* first alternative that is followed by whitespace, a run of whitespace
question_match(s, word) ==
    IF ~startswith(s, word) THEN 0
    ELSE LET rest1 == SliceFrom(s, Len(word))
             ws1 == leading_whitespace(rest1)
             rest2 == SliceFrom(rest1, ws1)
             fits(k) == /\ startswith(rest2, AuxiliaryWords[k])
                        /\ leading_whitespace(
                               SliceFrom(rest2, Len(AuxiliaryWords[k]))) > 0
             ks == {k \in 1..Len(AuxiliaryWords) : fits(k)}
         IN  IF ws1 = 0 \/ ks = {} THEN 0
             ELSE LET aux == AuxiliaryWords[CHOOSE k \in ks :
                                               \A j \in ks : k <= j]
                      rest3 == SliceFrom(rest2, Len(aux))
                  IN  Len(word) + ws1 + Len(aux) + leading_whitespace(rest3)

\* the loop over question_words: "if processed_query.startswith(word):
\* without_question = re.sub(...); if without_question != processed_query:
\* expanded_queries.append(without_question)"
RECURSIVE without_question_words(_, _)
without_question_words(processed, k) ==
    IF k > Len(QuestionWords) THEN << >>
    ELSE (IF question_match(processed, QuestionWords[k]) > 0
          THEN << SliceFrom(processed,
                            question_match(processed, QuestionWords[k])) >>
          ELSE << >>)
         \o without_question_words(processed, k + 1)

\* str.replace('?', '')
RECURSIVE remove_question_marks(_)
remove_question_marks(s) ==
    IF s = << >> THEN << >>
    ELSE (IF Head(s) = "?" THEN << >> ELSE << Head(s) >>)
         \o remove_question_marks(Tail(s))

\* str.split(): the maximal runs of non-whitespace characters
RECURSIVE split(_)
split(s) ==
    LET t == SliceFrom(s, leading_whitespace(s))
        n == IF \E i \in 1..Len(t) : t[i] \in Whitespace
             THEN (CHOOSE i \in 1..Len(t) :
                      /\ t[i] \in Whitespace
                      /\ \A j \in 1..(i - 1) : t[j] \notin Whitespace) - 1
             ELSE Len(t)
    IN  IF t = << >> THEN << >>
        ELSE << SubSeq(t, 1, n) >> \o split(SliceFrom(t, n))

\* ' '.join(words)
RECURSIVE join(_)
join(words) ==
    IF words = << >> THEN << >>
    ELSE IF Len(words) = 1 THEN words[1]
    ELSE words[1] \o << " " >> \o join(Tail(words))

\* "[word for word in words if word not in common_words]"
RECURSIVE key_words(_)
key_words(words) ==
    IF words = << >> THEN << >>
    ELSE (IF Head(words) \in CommonWords THEN << >> ELSE << Head(words) >>)
         \o key_words(Tail(words))

\* "if len(words) > 3: ... if len(key_words) > 2: append(' '.join(key_words))"
key_phrase(processed) ==
    IF Len(split(processed)) > 3 /\ Len(key_words(split(processed))) > 2
    THEN << join(key_words(split(processed))) >>
    ELSE << >>

\* expanded_queries before the duplicates are removed
variants(processed) ==
    << processed >>
        \o without_question_words(processed, 1)
        \o (IF \E i \in 1..Len(processed) : processed[i] = "?"
            THEN << remove_question_marks(processed) >> ELSE << >>)
        \o key_phrase(processed)

\* the list left as it is
fromkeys_all(xs) == xs

\* list(dict.fromkeys(xs)): the first occurrence of every element, in order
fromkeys(xs) ==
    LET first == {i \in 1..Len(xs) : \A j \in 1..(i - 1) : xs[j] # xs[i]}
        nth(k) == CHOOSE i \in first :
                      Cardinality({j \in first : j < i}) = k - 1
    IN  [k \in 1..Cardinality(first) |-> xs[nth(k)]]

\* QueryProcessor.expand_query: "if not query or not self.expand_queries:
\* return [query]"
expand_query(query, expand_queries) ==
    IF query = << >> \/ ~expand_queries THEN << query >>
    ELSE fromkeys(variants(process_query(query)))

------------------------------------------------------------------------------
(* Document pipeline: DocumentCache (src/src/rag/document/cache.py),       *)
(* EmbeddingService (embedding/service.py), VectorDBManager and the two    *)
(* connectors (vector_db/*.py), DocumentProcessor (document/processor.py). *)
(* Every call is one action: the code is synchronous and single-threaded   *)
(* per call.  What the environment decides (an I/O error, a backend call   *)
(* that raises) is an input of the action.                                 *)

\* bounds
Ttl == 1
PipeChunkSize == 2

\* the clock runs far enough to see an entry expire
MaxTime == Ttl + 2

PipeChunkOverlap == PipeChunkSize - 1

\* ---------------------------------------------------------------- documents

\* metadata is a function from keys to values; <<>> is the empty dict
NoMeta == << >>

MetaKeyOrder == << "chunk", "source", "title" >>

\* sorted(metadata.items())
sorted_items(metadata) ==
    LET keys == SelectSeq(MetaKeyOrder, LAMBDA k : k \in DOMAIN metadata)
    IN  [i \in 1..Len(keys) |-> << keys[i], metadata[keys[i]] >>]

\* _generate_document_id: "doc_" + md5(text + str(sorted(metadata.items()))).
\* The digest is kept as the pair it is computed from (no two inputs of the
\* model collide).
generate_document_id(text, metadata) ==
    << "doc_", text, sorted_items(metadata) >>

\* the document dict process_document builds
Document(text, metadata) ==
    [id |-> generate_document_id(text, metadata), text |-> text,
     metadata |-> metadata]

\* the while loop of chunk_text as a function (for texts on which it returns)
RECURSIVE chunk_loop(_, _, _, _, _)
chunk_loop(text, size, overlap, start, chunks) ==
    IF start + size >= Len(text)
    THEN Append(chunks, SliceFrom(text, start))
    ELSE LET split_point == find_split_point(text, start + size)
         IN  chunk_loop(text, size, overlap, next_start(split_point, overlap),
                        Append(chunks, window_chunk(text, start, split_point)))

\* TextChunker.chunk_text
chunk_text(text, size, overlap) ==
    IF Len(text) = 0 \/ Len(text) <= size THEN short_result(text, size)
    ELSE chunk_loop(text, size, overlap, 0, << >>)

\* a vector, by what the pipeline can tell of it: all zeros or the embedding
\* of a text, and its length
ZeroVector(dim) == [kind |-> "zero", dim |-> dim, of |-> << >>]

Embedding(dim, text) == [kind |-> "vector", dim |-> dim, of |-> text]

\* the empty list that EmbeddingService.generate_embedding returns
EmptyVector == [kind |-> "empty", dim |-> 0, of |-> << >>]

\* a document without an 'embedding' key
NoEmbedding == [kind |-> "missing", dim |-> 0, of |-> << >>]

\* TextChunker.chunk_documents: every chunk copies the document's other
\* fields (its id among them) and gets metadata['chunk'] = {index, total}
RECURSIVE chunk_documents(_, _, _)
chunk_documents(documents, size, overlap) ==
    IF documents = << >> THEN << >>
    ELSE LET doc == Head(documents)
             chunks == chunk_text(doc.text, size, overlap)
             out == [i \in 1..Len(chunks) |->
                       [id |-> doc.id, text |-> chunks[i],
                        metadata |->
                            ("chunk" :> [index |-> i - 1, total |-> Len(chunks)])
                                @@ doc.metadata,
                        embedding |-> NoEmbedding]]
         IN  (IF doc.text = << >> THEN << >> ELSE out)
                 \o chunk_documents(Tail(documents), size, overlap)

\* -------------------------------------------------------------- DocumentCache

\* placeholder where there is no document
NullDocument == [id |-> << >>, text |-> << >>, metadata |-> << >>]

NoFile == [state |-> "none", cached_time |-> 0, doc |-> NullDocument]

CorruptFile == [state |-> "corrupt", cached_time |-> 0, doc |-> NullDocument]

EntryFile(t, doc) == [state |-> "entry", cached_time |-> t, doc |-> doc]

\* what get / get_document return for "not found"
NoDoc == [found |-> FALSE, doc |-> NullDocument]

FoundDoc(doc) == [found |-> TRUE, doc |-> doc]

\* mutant: an entry expires as soon as its age reaches ttl
is_expired_at_ttl(t, cached_time, ttl) == t - cached_time >= ttl

\* "if time.time() - cached_time > self.ttl"
is_expired(t, cached_time, ttl) == t - cached_time > ttl

\* mutant: a failed read is taken for a hit
cache_get_unguarded(files, doc_id, t, ttl, io_ok) ==
    IF files[doc_id].state = "none" THEN NoDoc
    ELSE FoundDoc(files[doc_id].doc)

\* DocumentCache.get; io_ok = FALSE: open / json.load raises
cache_get(files, doc_id, t, ttl, io_ok) ==
    IF files[doc_id].state = "none" THEN NoDoc
    ELSE IF ~io_ok \/ files[doc_id].state = "corrupt" THEN NoDoc
    ELSE IF is_expired(t, files[doc_id].cached_time, ttl) THEN NoDoc
    ELSE FoundDoc(files[doc_id].doc)

\* DocumentCache.store; outcome "ok", "fail" (open raises, the file is
\* untouched) or "partial" (json.dump raises after open(path, 'w') truncated
\* the file)
cache_store(files, doc_id, document, t, outcome) ==
    CASE outcome = "ok" ->
            [files |-> [files EXCEPT ![doc_id] = EntryFile(t, document)],
             result |-> TRUE]
      [] outcome = "partial" ->
            [files |-> [files EXCEPT ![doc_id] = CorruptFile], result |-> FALSE]
      [] OTHER -> [files |-> files, result |-> FALSE]

\* DocumentCache.invalidate; io_ok = FALSE: os.remove raises
cache_invalidate(files, doc_id, io_ok) ==
    IF files[doc_id].state = "none" THEN [files |-> files, result |-> TRUE]
    ELSE IF ~io_ok THEN [files |-> files, result |-> FALSE]
    ELSE [files |-> [files EXCEPT ![doc_id] = NoFile], result |-> TRUE]

\* DocumentCache.clear; removed is the set of files deleted before the loop
\* ended: all of them, or fewer when listdir / os.remove raised
cache_clear(files, removed) ==
    LET present == {k \in DOMAIN files : files[k].state # "none"}
    IN  [files |-> [k \in DOMAIN files |->
                        IF k \in removed THEN NoFile ELSE files[k]],
         result |-> (removed = present)]

\* ----------------------------------------------------------- EmbeddingService

\* "self._dimension = 1536" of OpenAIEmbedding
OpenAIDimension == 1536

\* "self._dimension = 384" of SentenceTransformerEmbedding
SentenceTransformersDimension == 384

\* "self.models = {'openai': ..., 'sentence_transformers': ...}"
ModelNames == {"openai", "sentence_transformers"}

\* EmbeddingModel.dimension of the provider; EmbeddingService.dimension is 0
\* without a model
dimension(model) ==
    IF model = "openai" THEN OpenAIDimension
    ELSE IF model = "sentence_transformers" THEN SentenceTransformersDimension
    ELSE 0

\* provider.generate: the embedding of the text, "[0.0] * self._dimension"
\* when the call raises (or the sentence-transformers model is not loaded)
generate(model, text, call_ok) ==
    IF call_ok THEN Embedding(dimension(model), text)
    ELSE ZeroVector(dimension(model))

\* provider.generate_batch: one embedding per text of the response, in the
\* order of the input; "[[0.0] * self._dimension for _ in range(len(texts))]"
\* when the call raises (or the sentence-transformers model is not loaded)
generate_batch(model, texts, call_ok) ==
    [i \in 1..Len(texts) |-> generate(model, texts[i], call_ok)]

\* EmbeddingService.generate_embeddings: "if not self.current_model:
\* return []"; else the provider's generate_batch
generate_embeddings(model, texts, call_ok) ==
    IF model = "none" THEN << >>
    ELSE generate_batch(model, texts, call_ok)

\* "for i, embedding in enumerate(embeddings): chunked_docs[i]['embedding'] = ..."
attach_embeddings(chunked_docs, embeddings) ==
    [i \in 1..Len(chunked_docs) |->
        IF i <= Len(embeddings)
        THEN [chunked_docs[i] EXCEPT !.embedding = embeddings[i]]
        ELSE chunked_docs[i]]

\* ----------------------------------------------------------------- connectors

DbTypes == {"pinecone", "chroma"}

NoConnector == [kind |-> "none", is_connected |-> FALSE]

NewConnector(kind) == [kind |-> kind, is_connected |-> FALSE]

\* connect(): Chroma gets or creates its collection; Pinecone looks its index
\* up and fails when the index does not exist.  call_ok = FALSE: the client
\* raises (or the Pinecone API key is not set).
connect(conn, be, call_ok) ==
    IF ~call_ok
    THEN [conn |-> [conn EXCEPT !.is_connected = FALSE], be |-> be, result |-> FALSE]
    ELSE IF conn.kind = "chroma"
    THEN [conn |-> [conn EXCEPT !.is_connected = TRUE],
          be |-> [be EXCEPT !.chroma.exists = TRUE], result |-> TRUE]
    ELSE IF be.pinecone.exists
    THEN [conn |-> [conn EXCEPT !.is_connected = TRUE], be |-> be, result |-> TRUE]
    ELSE [conn |-> [conn EXCEPT !.is_connected = FALSE], be |-> be, result |-> FALSE]

\* disconnect(): "self.is_connected = False"; nothing in it can raise
disconnect(conn) == [conn EXCEPT !.is_connected = FALSE]

\* "if not self.is_connected: if not self.connect(): ..."
ensure_connected(conn, be, connect_ok) ==
    IF conn.is_connected THEN [conn |-> conn, be |-> be, result |-> TRUE]
    ELSE connect(conn, be, connect_ok)

\* the items of a collection / index after writing docs in order (a later
\* document with the same id overwrites an earlier one)
write_items(items, docs) ==
    LET at(k) == {i \in 1..Len(docs) : docs[i].id = k}
        rec(d) == [text |-> d.text, embedding |-> d.embedding,
                   metadata |-> d.metadata]
    IN  [k \in DOMAIN items \cup {docs[i].id : i \in 1..Len(docs)} |->
            IF at(k) = {} THEN items[k] ELSE rec(docs[SetMax(at(k))])]

\* what a write does to the items: Pinecone's index.upsert replaces the item
\* of an id that exists; for Chroma's collection.add the backend decides
\* (add_existing): it replaces the item, leaves it as it is, or raises
add_items(kind, items, docs, add_existing) ==
    IF kind = "pinecone" \/ add_existing = "overwrite"
    THEN write_items(items, docs)
    ELSE [k \in DOMAIN write_items(items, docs) |->
             IF k \in DOMAIN items THEN items[k]
             ELSE write_items(items, docs)[k]]

\* collection.add raising for an id that exists
add_raises(kind, items, docs, add_existing) ==
    /\ kind = "chroma"
    /\ add_existing = "raise"
    /\ \E i \in 1..Len(docs) : docs[i].id \in DOMAIN items

\* "batch_size = 100" of PineconeConnector.store_embeddings
PineconeBatchSize == 100

\* the backend calls store_embeddings makes for n documents: Chroma one
\* collection.add, Pinecone one index.upsert per batch of batch_size
backend_calls(kind, n) ==
    IF kind = "chroma" THEN 1
    ELSE (n + PineconeBatchSize - 1) \div PineconeBatchSize

\* the documents already written when the fail_at-th backend call raises
\* (fail_at = 0: no call raises)
written_before(kind, docs, fail_at) ==
    IF fail_at \notin 1..backend_calls(kind, Len(docs)) THEN docs
    ELSE IF kind = "chroma" THEN << >>
    ELSE SubSeq(docs, 1, (fail_at - 1) * PineconeBatchSize)

\* connector.store_embeddings: [] when it cannot connect, when a document has
\* no 'embedding' (KeyError inside the try) or when a backend call raises,
\* whatever the earlier calls wrote; else the ids of all documents.
\* 'written' is what the call put into the backend.
store_embeddings_at(conn, be, docs, connect_ok, fail_at, add_existing) ==
    LET c == ensure_connected(conn, be, connect_ok)
        k == c.conn.kind
        fails == IF add_raises(k, c.be[k].items, docs, add_existing)
                 THEN 1 ELSE fail_at
        w == written_before(k, docs, fails)
    IN  IF ~c.result
        THEN [conn |-> c.conn, be |-> c.be, ids |-> << >>, written |-> << >>]
        ELSE IF \E i \in 1..Len(docs) : docs[i].embedding = NoEmbedding
        THEN [conn |-> c.conn, be |-> c.be, ids |-> << >>, written |-> << >>]
        ELSE [conn |-> c.conn,
              be |-> [c.be EXCEPT ![k].items =
                                     add_items(k, @, w, add_existing)],
              ids |-> IF fails \in 1..backend_calls(k, Len(docs))
                      THEN << >>
                      ELSE [i \in 1..Len(docs) |-> docs[i].id],
              written |-> [i \in 1..Len(w) |-> w[i].id]]

\* the same with the first backend call raising or none
store_embeddings(conn, be, docs, connect_ok, backend_ok, add_existing) ==
    store_embeddings_at(conn, be, docs, connect_ok,
                        IF backend_ok THEN 0 ELSE 1, add_existing)

\* connector.delete_document: False when it cannot connect or the backend call
\* raises, True whenever the backend call returns
connector_delete(conn, be, doc_id, connect_ok, delete_ok) ==
    LET c == ensure_connected(conn, be, connect_ok)
        k == c.conn.kind
        items == c.be[k].items
    IN  IF ~c.result \/ ~delete_ok
        THEN [conn |-> c.conn, be |-> c.be, result |-> FALSE]
        ELSE [conn |-> c.conn,
              be |-> [c.be EXCEPT ![k].items =
                         [j \in DOMAIN items \ {doc_id} |-> items[j]]],
              result |-> TRUE]

\* ------------------------------------------------------------ VectorDBManager

\* VectorDBManager.store_embeddings
manager_store(conn, be, docs, connect_ok, backend_ok, add_existing) ==
    IF conn.kind = "none"
    THEN [conn |-> conn, be |-> be, ids |-> << >>, written |-> << >>]
    ELSE store_embeddings(conn, be, docs, connect_ok, backend_ok,
                          add_existing)

\* VectorDBManager.delete_document
manager_delete(conn, be, doc_id, connect_ok, delete_ok) ==
    IF conn.kind = "none" THEN [conn |-> conn, be |-> be, result |-> FALSE]
    ELSE connector_delete(conn, be, doc_id, connect_ok, delete_ok)

\* VectorDBManager.switch_db.  create_ok = FALSE: the connector's constructor
\* raises (after the current connector was disconnected).
switch_db(conn, dbt, be, name, create_ok, connect_ok) ==
    IF name \notin DbTypes
    THEN [conn |-> conn, db_type |-> dbt, be |-> be, result |-> FALSE]
    ELSE LET old == IF conn.kind = "none" THEN conn ELSE disconnect(conn)
         IN  IF ~create_ok
             THEN [conn |-> old, db_type |-> dbt, be |-> be, result |-> FALSE]
             ELSE LET c == connect(NewConnector(name), be, connect_ok)
                  IN  [conn |-> c.conn, db_type |-> name, be |-> c.be,
                       result |-> c.result]

\* ---------------------------------------------------------- DocumentProcessor

\* DocumentProcessor.process_documents for a non-empty list; env holds the
\* environment's decisions for this call.  Returns the new state and doc_ids.
process_documents(documents, files, conn, be, model, t, env) ==
    LET chunked == chunk_documents(documents, PipeChunkSize, PipeChunkOverlap)
        texts == [i \in 1..Len(chunked) |-> chunked[i].text]
        embeddings == generate_embeddings(model, texts, env.embed_ok)
        with_emb == attach_embeddings(chunked, embeddings)
        st == manager_store(conn, be, with_emb, env.connect_ok, env.backend_ok,
                            env.add_existing)
        \* "if self.cache: for doc in documents: if 'id' in doc: store"
        cached == IF cache_enabled
                  THEN cache_store(files, documents[1].id, documents[1], t,
                                   env.cache_store)
                  ELSE [files |-> files, result |-> FALSE]
    IN  [files |-> cached.files, conn |-> st.conn, be |-> st.be,
         result |-> st.ids, embed_calls |-> 1, upsert_calls |-> 1,
         cache_hit |-> FALSE]

\* DocumentProcessor.process_document
process_document(text, metadata, files, conn, be, model, t, env) ==
    LET doc_id == generate_document_id(text, metadata)
        cached_doc == IF cache_enabled
                      THEN cache_get(files, doc_id, t, Ttl, env.cache_get_ok)
                      ELSE NoDoc
    IN  IF text = << >>
        THEN [files |-> files, conn |-> conn, be |-> be, result |-> << >>,
              embed_calls |-> 0, upsert_calls |-> 0, cache_hit |-> FALSE]
        ELSE IF cached_doc.found
        THEN [files |-> files, conn |-> conn, be |-> be, result |-> << doc_id >>,
              embed_calls |-> 0, upsert_calls |-> 0, cache_hit |-> TRUE]
        ELSE process_documents(<< Document(text, metadata) >>, files, conn, be,
                               model, t, env)

\* DocumentProcessor.delete_document: the store's answer is returned, the
\* cache's answer is dropped (kept here as invalidated)
delete_document(doc_id, files, conn, be, env) ==
    LET del == manager_delete(conn, be, doc_id, env.connect_ok, env.backend_ok)
        inv == IF cache_enabled
               THEN cache_invalidate(files, doc_id, env.cache_get_ok)
               ELSE [files |-> files, result |-> TRUE]
    IN  [files |-> inv.files, conn |-> del.conn, be |-> del.be,
         result |-> del.result, invalidated |-> inv.result]

\* ------------------------------------------------------------------- inputs

\* the (text, metadata) pairs callers ingest: an empty text, a text of one
\* chunk, a text of several chunks
PipeInputs ==
    { << << >>, NoMeta >>,
      << Rep("a", PipeChunkSize), NoMeta >>,
      << Rep("b", PipeChunkSize + 1), [source |-> "t"] >> }

\* an id no document of the model has
AbsentId == << "doc_", << "?" >>, << >> >>

PipeIds ==
    {generate_document_id(inp[1], inp[2]) : inp \in {i \in PipeInputs : i[1] # << >>}}
        \cup {AbsentId}

\* what Chroma's collection.add can do with an id that exists
AddExisting == {"overwrite", "ignore", "raise"}

\* what the environment decides during one call: whether the cache's file
\* operations, the embedding provider, the backend's connect and the
\* backend's add / upsert / delete / query go through, and what an add of
\* an existing id does
AllOk ==
    [cache_get_ok |-> TRUE, embed_ok |-> TRUE, connect_ok |-> TRUE,
     backend_ok |-> TRUE, cache_store |-> "ok", add_existing |-> "overwrite"]

\* at most one thing fails per call
Envs ==
    { AllOk,
      [AllOk EXCEPT !.cache_get_ok = FALSE], [AllOk EXCEPT !.embed_ok = FALSE],
      [AllOk EXCEPT !.connect_ok = FALSE], [AllOk EXCEPT !.backend_ok = FALSE],
      [AllOk EXCEPT !.cache_store = "fail"],
      [AllOk EXCEPT !.cache_store = "partial"],
      [AllOk EXCEPT !.add_existing = "ignore"] }

\* every cache operation fails, the rest goes through
CacheDown ==
    [AllOk EXCEPT !.cache_get_ok = FALSE, !.cache_store = "fail"]

CacheDownPartial ==
    [AllOk EXCEPT !.cache_get_ok = FALSE, !.cache_store = "partial"]

CacheFaultEnvs == {AllOk, CacheDown, CacheDownPartial}

cache_is_down(env) == ~env.cache_get_ok /\ env.cache_store # "ok"

\* the record of a completed call: op and doc_id are the call, result the
\* returned id list, ok the returned boolean, doc the returned document;
\* clean: nothing failed in the environment during the call; stored_before /
\* cached_before: whether the id was in the active store / had a cache file
\* when the call began; invalidated: what DocumentCache.invalidate answered;
\* cache_down: every cache operation of the call failed
NoCall ==
    [op |-> "none", doc_id |-> AbsentId, result |-> << >>, ok |-> TRUE,
     doc |-> NoDoc, cache_hit |-> FALSE, embed_calls |-> 0, upsert_calls |-> 0,
     stored_before |-> FALSE, cached_before |-> FALSE, invalidated |-> TRUE,
     clean |-> TRUE, cache_down |-> FALSE]

\* whether doc_id is in the active connector's collection / index
stored_in_active(conn, be, doc_id) ==
    /\ conn.kind \in DbTypes
    /\ doc_id \in DOMAIN be[conn.kind].items

\* whether the cache directory holds a file for doc_id
cached_in(files, doc_id) ==
    /\ doc_id \in DOMAIN files
    /\ files[doc_id].state # "none"

\* the pinecone index is created outside this code, with any of the metrics
\* Pinecone offers; connect() takes the index as it finds it
PineconeMetrics == {"cosine", "euclidean"}

EmptyBackends(pinecone_exists, pinecone_metric) ==
    [chroma |-> [exists |-> FALSE, metric |-> "l2", items |-> << >>],
     pinecone |-> [exists |-> pinecone_exists, metric |-> pinecone_metric,
                   items |-> << >>]]

PipeIdle ==
    /\ now = 0
    /\ cache_enabled = FALSE
    /\ cache_files = [k \in PipeIds |-> NoFile]
    /\ current_model = "none"
    /\ current_connector = NoConnector
    /\ db_type = "none"
    /\ backends = EmptyBackends(FALSE, "cosine")
    /\ last = NoCall

\* the state after DocumentProcessor.__init__: an empty cache directory, the
\* embedding service with or without a model, the manager after
\* __init__'s switch_db(settings.vector_db_provider)
PipeInit ==
    /\ now = 0
    /\ cache_enabled \in BOOLEAN
    /\ cache_files = [k \in PipeIds |-> NoFile]
    /\ current_model \in {"openai", "none"}
    /\ \E provider \in DbTypes, connect_ok \in BOOLEAN,
          metric \in PineconeMetrics :
          LET sw == switch_db(NoConnector, provider,
                              EmptyBackends(TRUE, metric),
                              provider, TRUE, connect_ok)
          IN  /\ provider = "chroma" => metric = "cosine"
              /\ current_connector = sw.conn
              /\ db_type = sw.db_type
              /\ backends = sw.be
    /\ last = NoCall

\* time passes
Tick ==
    /\ now < MaxTime
    /\ now' = now + 1
    /\ UNCHANGED <<cache_enabled, cache_files, current_model,
                   current_connector, db_type, backends, last>>

ProcessDocumentIn(envs) ==
    \E inp \in PipeInputs, env \in envs :
        LET r == process_document(inp[1], inp[2], cache_files,
                                  current_connector, backends, current_model,
                                  now, env)
            id == generate_document_id(inp[1], inp[2])
        IN  /\ cache_files' = r.files
            /\ current_connector' = r.conn
            /\ backends' = r.be
            /\ last' = [NoCall EXCEPT
                    !.op = "process_document", !.doc_id = id,
                    !.result = r.result, !.cache_hit = r.cache_hit,
                    !.embed_calls = r.embed_calls,
                    !.upsert_calls = r.upsert_calls,
                    !.stored_before =
                        stored_in_active(current_connector, backends, id),
                    !.cached_before = cached_in(cache_files, id),
                    !.clean = (env = AllOk),
                    !.cache_down = cache_is_down(env)]
            /\ UNCHANGED <<now, cache_enabled, current_model, db_type>>

ProcessDocument == ProcessDocumentIn(Envs)

DeleteDocumentIn(envs) ==
    \E id \in PipeIds, env \in envs :
        LET r == delete_document(id, cache_files, current_connector, backends, env)
        IN  /\ cache_files' = r.files
            /\ current_connector' = r.conn
            /\ backends' = r.be
            /\ last' = [NoCall EXCEPT
                    !.op = "delete_document", !.doc_id = id, !.ok = r.result,
                    !.stored_before =
                        stored_in_active(current_connector, backends, id),
                    !.cached_before = cached_in(cache_files, id),
                    !.invalidated = r.invalidated,
                    !.clean = (env = AllOk),
                    !.cache_down = cache_is_down(env)]
            /\ UNCHANGED <<now, cache_enabled, current_model, db_type>>

DeleteDocument == DeleteDocumentIn(Envs)

\* the failures between switches: an upsert / delete the backend rejects, a
\* cache whose reads and removals fail
SwitchingEnvs ==
    { AllOk, [AllOk EXCEPT !.backend_ok = FALSE],
      [AllOk EXCEPT !.cache_get_ok = FALSE] }

\* a processor with the cache enabled and a provider set
SwitchingInit ==
    /\ PipeInit
    /\ cache_enabled
    /\ current_model = "openai"
    /\ backends.pinecone.metric = "cosine"

\* VectorDBManager.switch_db(db_type) between two calls of the processor, as
\* one call
SwitchDb ==
    \E name \in DbTypes, create_ok \in BOOLEAN, connect_ok \in BOOLEAN :
        LET sw == switch_db(current_connector, db_type, backends, name,
                            create_ok, connect_ok)
        IN  /\ current_connector' = sw.conn
            /\ db_type' = sw.db_type
            /\ backends' = sw.be
            /\ last' = [NoCall EXCEPT !.op = "switch_db", !.ok = sw.result]
            /\ UNCHANGED <<now, cache_enabled, cache_files, current_model>>

\* ------------------------------------------- DocumentCache called directly

CacheInit ==
    /\ now = 0
    /\ cache_enabled = TRUE
    /\ cache_files = [k \in PipeIds |-> NoFile]
    /\ current_model = "none"
    /\ current_connector = NoConnector
    /\ db_type = "none"
    /\ backends = EmptyBackends(FALSE, "cosine")
    /\ last = NoCall

CacheCall(op, id, ok, io_ok) ==
    [NoCall EXCEPT !.op = op, !.doc_id = id, !.ok = ok,
                   !.cached_before = cached_in(cache_files, id),
                   !.clean = io_ok]

CacheStore ==
    \E inp \in {i \in PipeInputs : i[1] # << >>},
       outcome \in {"ok", "fail", "partial"} :
        LET doc == Document(inp[1], inp[2])
            r == cache_store(cache_files, doc.id, doc, now, outcome)
        IN  /\ cache_files' = r.files
            /\ last' = CacheCall("store", doc.id, r.result, outcome = "ok")
            /\ UNCHANGED <<now, cache_enabled, current_model,
                           current_connector, db_type, backends>>

CacheGet ==
    \E id \in PipeIds, io_ok \in BOOLEAN :
        /\ last' = [CacheCall("get", id, TRUE, io_ok) EXCEPT
                        !.doc = cache_get(cache_files, id, now, Ttl, io_ok)]
        /\ UNCHANGED <<now, cache_enabled, cache_files, current_model,
                       current_connector, db_type, backends>>

CacheInvalidate ==
    \E id \in PipeIds, io_ok \in BOOLEAN :
        LET r == cache_invalidate(cache_files, id, io_ok)
        IN  /\ cache_files' = r.files
            /\ last' = CacheCall("invalidate", id, r.result, io_ok)
            /\ UNCHANGED <<now, cache_enabled, current_model,
                           current_connector, db_type, backends>>

CacheClear ==
    \E removed \in SUBSET {k \in PipeIds : cache_files[k].state # "none"} :
        LET r == cache_clear(cache_files, removed)
        IN  /\ cache_files' = r.files
            /\ last' = CacheCall("clear", AbsentId, r.result, r.result)
            /\ UNCHANGED <<now, cache_enabled, current_model,
                           current_connector, db_type, backends>>

\* DocumentCache.get_stats; io_ok = FALSE: listdir / getsize raises and the
\* dict holds only 'error'
cache_get_stats(files, io_ok) ==
    IF io_ok
    THEN [error |-> FALSE,
          file_count |-> Cardinality({k \in DOMAIN files : files[k].state # "none"})]
    ELSE [error |-> TRUE, file_count |-> 0]

CacheGetStats ==
    \E io_ok \in BOOLEAN :
        /\ last' = CacheCall("get_stats", AbsentId,
                             ~cache_get_stats(cache_files, io_ok).error, io_ok)
        /\ UNCHANGED <<now, cache_enabled, cache_files, current_model,
                       current_connector, db_type, backends>>

\* a processor with the cache enabled and a model loaded
CacheFaultsInit ==
    /\ PipeInit
    /\ cache_enabled
    /\ current_model = "openai"

\* ----------------------------------------------------------------- queries

TopKs == {1, 2}

\* queries of the engine: expand_query makes one, two and three variants of
\* them
EngineQueries ==
    {<<"q">>,
     <<"w", "h", "o", "?">>,
     <<"w", "h", "a", "t", " ", "i", "s", " ", "a", "?">>}

Distances == {0, 1}

\* a result dict of a connector's query
Hit(id, score, text, metadata) ==
    [id |-> id, score |-> score, text |-> text, metadata |-> metadata]

\* what a backend's nearest-neighbour search finds: stored ids, each once,
\* nearest first, each with its distance from the query vector
IsNearestFirst(r) ==
    \A i, j \in 1..Len(r) :
        i < j => r[i].id # r[j].id /\ r[i].distance <= r[j].distance

\* at most top_k of them (fewer when there are fewer items or a filter
\* excludes some)
Responses(items, top_k) ==
    {r \in SeqsUpTo([id : DOMAIN items, distance : Distances],
                    Min(top_k, Cardinality(DOMAIN items))) : IsNearestFirst(r)}

\* Chroma answers with distances: 'score': 1.0 - results['distances'][0][i]
chroma_results(items, response) ==
    [i \in 1..Len(response) |->
        Hit(response[i].id, 1 - response[i].distance,
            items[response[i].id].text, items[response[i].id].metadata)]

\* the score of a Pinecone match: the similarity for a cosine index (higher is
\* nearer), the distance for a euclidean index (lower is nearer)
pinecone_match_score(metric, distance) ==
    IF metric = "euclidean" THEN distance ELSE 1 - distance

\* Pinecone: 'score': match['score']
pinecone_results(items, metric, response) ==
    [i \in 1..Len(response) |->
        Hit(response[i].id, pinecone_match_score(metric, response[i].distance),
            items[response[i].id].text, items[response[i].id].metadata)]

\* connector.query: [] when it cannot connect or the backend call raises
\* (it does for an empty query vector)
connector_query(conn, be, embedding, response, connect_ok, query_ok) ==
    LET c == ensure_connected(conn, be, connect_ok)
        k == c.conn.kind
    IN  IF ~c.result \/ ~query_ok \/ embedding = EmptyVector
        THEN [conn |-> c.conn, be |-> c.be, results |-> << >>]
        ELSE [conn |-> c.conn, be |-> c.be,
              results |-> IF k = "chroma"
                          THEN chroma_results(c.be[k].items, response)
                          ELSE pinecone_results(c.be[k].items, c.be[k].metric,
                                                response)]

\* EmbeddingService.generate_embedding: [] without a model, a zero vector
\* when the provider call fails
generate_embedding(model, call_ok) ==
    IF model = "none" THEN EmptyVector
    ELSE generate(model, << >>, call_ok)

\* VectorDBManager.query
manager_query(conn, be, embedding, response, connect_ok, query_ok) ==
    IF conn.kind = "none" THEN [conn |-> conn, be |-> be, results |-> << >>]
    ELSE connector_query(conn, be, embedding, response, connect_ok, query_ok)

\* DocumentProcessor.query; outcome = [env, response]
processor_query(conn, be, model, outcome) ==
    manager_query(conn, be, generate_embedding(model, outcome.env.embed_ok),
                  outcome.response, outcome.env.connect_ok,
                  outcome.env.backend_ok)

\* "for expanded_query in expanded_queries: results = document_processor.query(...)"
RECURSIVE query_variants(_, _, _, _, _)
query_variants(conn, be, model, outcomes, lists) ==
    IF outcomes = << >> THEN [conn |-> conn, be |-> be, lists |-> lists]
    ELSE LET r == processor_query(conn, be, model, Head(outcomes))
         IN  query_variants(r.conn, r.be, model, Tail(outcomes),
                            Append(lists, r.results))

\* all_results after every all_results.extend(results)
RECURSIVE all_results(_)
all_results(lists) ==
    IF lists = << >> THEN << >> ELSE Head(lists) \o all_results(Tail(lists))

\* mutant: nothing is dropped
unique_results_all(results) == results

\* the seen_ids loop: a result is kept when its id was not seen before
RECURSIVE seen_ids_loop(_, _, _)
seen_ids_loop(results, seen_ids, unique) ==
    IF results = << >> THEN unique
    ELSE IF Head(results).id \in seen_ids
    THEN seen_ids_loop(Tail(results), seen_ids, unique)
    ELSE seen_ids_loop(Tail(results), seen_ids \cup {Head(results).id},
                       Append(unique, Head(results)))

unique_results(results) == seen_ids_loop(results, {}, << >>)

\* mutant: the list is left in the order of arrival
sorted_results_unsorted(results) == results

\* sorted(unique_results, key=score, reverse=True): stable, equal scores keep
\* their order
RECURSIVE sorted_results(_)
sorted_results(results) ==
    IF results = << >> THEN << >>
    ELSE LET n == Len(results)
             x == results[n]
             front == sorted_results(SubSeq(results, 1, n - 1))
             k == Cardinality({i \in 1..Len(front) : front[i].score >= x.score})
         IN  SubSeq(front, 1, k) \o << x >> \o SubSeq(front, k + 1, Len(front))

\* sorted_results[:top_k]
top_results(results, top_k) == Slice(results, 0, top_k)

\* what can happen to one DocumentProcessor.query: the backend answers, or the
\* connect / the backend call fails
QueryOutcomes(items, top_k) ==
    {[env |-> AllOk, response |-> r] : r \in Responses(items, top_k)}
        \cup {[env |-> [AllOk EXCEPT !.connect_ok = FALSE], response |-> << >>],
              [env |-> [AllOk EXCEPT !.backend_ok = FALSE], response |-> << >>],
              [env |-> [AllOk EXCEPT !.embed_ok = FALSE, !.backend_ok = FALSE],
               response |-> << >>]}

\* the embedding call of the query failed and so did its store call
outcome_failed(outcome) ==
    ~outcome.env.embed_ok /\ ~outcome.env.backend_ok

\* "ContextEnhancer(max_context_length=4000)" of RAGQueryEngine.__init__
EngineContextLength == 4000

\* a metadata value as enhance formats it ('' when the key is missing); the
\* values are one-character strings
metadata_get(metadata, key) ==
    IF key \in DOMAIN metadata THEN << metadata[key] >> ELSE << >>

\* the result dicts as enhance reads them: text, score (in hundredths),
\* metadata source and title
retrieved_docs(results) ==
    [i \in 1..Len(results) |->
        Doc(results[i].id, 100 * results[i].score, results[i].text,
            metadata_get(results[i].metadata, "source"),
            metadata_get(results[i].metadata, "title"))]

NoResult ==
    [query |-> << >>, processed_query |-> << >>, enhanced_context |-> << >>]

ActiveItems ==
    IF current_connector.kind \in DbTypes
    THEN backends[current_connector.kind].items ELSE << >>

QueryIdle ==
    /\ q_op = "idle"
    /\ q_top_k = 0
    /\ q_lists = << >>
    /\ q_docs = << >>
    /\ q_result = NoResult
    /\ q_failed = FALSE

\* DocumentProcessor.query(query_text, top_k, filter)
ProcessorQuery ==
    /\ q_op = "idle"
    /\ \E top_k \in TopKs :
       \E outcome \in QueryOutcomes(ActiveItems, top_k) :
          LET r == processor_query(current_connector, backends, current_model,
                                   outcome)
          IN  /\ current_connector' = r.conn
              /\ backends' = r.be
              /\ q_op' = "processor_query"
              /\ q_top_k' = top_k
              /\ q_lists' = << r.results >>
              /\ q_docs' = r.results
              /\ q_failed' = outcome_failed(outcome)
    /\ UNCHANGED q_result
    /\ UNCHANGED <<now, cache_enabled, cache_files, current_model, db_type, last>>

\* RAGQueryEngine.query(query_text, top_k, filter); the engine's
\* QueryProcessor expands ("QueryProcessor(expand_queries=True)")
EngineQuery ==
    /\ q_op = "idle"
    /\ \E top_k \in TopKs, query_text \in EngineQueries :
       LET processed_query == process_query(query_text)
           expanded_queries == expand_query(processed_query, TRUE)
       IN  \E outcomes \in [1..Len(expanded_queries) ->
                                QueryOutcomes(ActiveItems, top_k)] :
          LET r == query_variants(current_connector, backends, current_model,
                                  outcomes, << >>)
              top == top_results(
                         sorted_results(unique_results(all_results(r.lists))),
                         top_k)
          IN  /\ current_connector' = r.conn
              /\ backends' = r.be
              /\ q_op' = "engine_query"
              /\ q_top_k' = top_k
              /\ q_lists' = r.lists
              /\ q_docs' = top
              /\ q_result' =
                     [query |-> query_text,
                      processed_query |-> processed_query,
                      enhanced_context |->
                          enhance(query_text, retrieved_docs(top),
                                  EngineContextLength)]
              /\ q_failed' = \A i \in DOMAIN outcomes :
                                 outcome_failed(outcomes[i])
    /\ UNCHANGED <<now, cache_enabled, cache_files, current_model, db_type, last>>

\* the caller takes the returned value
QueryReturn ==
    /\ q_op # "idle"
    /\ q_op' = "idle"
    /\ q_top_k' = 0
    /\ q_lists' = << >>
    /\ q_docs' = << >>
    /\ q_result' = NoResult
    /\ q_failed' = FALSE
    /\ UNCHANGED pipeVars

\* ingestion and deletion between queries; the cache plays no part in a query
QueryInit ==
    /\ PipeInit
    /\ ~cache_enabled
    /\ current_model = "openai"
    /\ QueryIdle

------------------------------------------------------------------------------
(* EmbeddingService (src/src/rag/embedding/service.py) and its providers,  *)
(* called directly                                                         *)

MaxBatch == 2

\* the texts of a batch: the empty string and two one-character strings
EmbedTexts == {<< >>, <<"a">>, <<"b">>}

Batches == SeqsUpTo(EmbedTexts, MaxBatch)

\* names a caller or settings.embedding_provider can ask for: the registered
\* ones and one that is not registered
RequestedModels == ModelNames \cup {"cohere"}

\* EmbeddingService.set_model: False with nothing assigned for a name outside
\* self.models or when the provider's constructor raises; else the new
\* provider and its name
set_model(model, mtype, name, create_ok) ==
    IF name \notin ModelNames \/ ~create_ok
    THEN [model |-> model, model_type |-> mtype, result |-> FALSE]
    ELSE [model |-> name, model_type |-> name, result |-> TRUE]

NoEmbCall ==
    [op |-> "none", name |-> "none", texts |-> << >>, call_ok |-> FALSE,
     ok |-> FALSE, vectors |-> << >>,
     model_before |-> "none", type_before |-> "none"]

EmbedIdle ==
    /\ model_type = "none"
    /\ emb_call = NoEmbCall

\* the state after EmbeddingService.__init__: "self.model_type = model_type or
\* settings.embedding_provider", "self.current_model = None",
\* "self.set_model(self.model_type)" with its result dropped
\* __init__ returns the instance whatever set_model answered: ok = TRUE
ServiceInit ==
    \E name \in RequestedModels, create_ok \in BOOLEAN :
        LET s == set_model("none", name, name, create_ok)
        IN  /\ current_model = s.model
            /\ model_type = s.model_type
            /\ emb_call = [NoEmbCall EXCEPT !.op = "__init__", !.name = name,
                                            !.call_ok = create_ok, !.ok = TRUE,
                                            !.type_before = name]

EmbedInit ==
    /\ now = 0
    /\ cache_enabled = FALSE
    /\ cache_files = [k \in PipeIds |-> NoFile]
    /\ current_connector = NoConnector
    /\ db_type = "none"
    /\ backends = EmptyBackends(FALSE, "cosine")
    /\ last = NoCall
    /\ ServiceInit

EmbedCall(op, name, texts, call_ok, ok, vectors) ==
    emb_call' = [op |-> op, name |-> name, texts |-> texts,
                 call_ok |-> call_ok, ok |-> ok, vectors |-> vectors,
                 model_before |-> current_model, type_before |-> model_type]

\* EmbeddingService.set_model(name)
SetModel ==
    \E name \in RequestedModels, create_ok \in BOOLEAN :
        LET s == set_model(current_model, model_type, name, create_ok)
        IN  /\ current_model' = s.model
            /\ model_type' = s.model_type
            /\ EmbedCall("set_model", name, << >>, create_ok, s.result, << >>)
            /\ UNCHANGED <<now, cache_enabled, cache_files, current_connector,
                           db_type, backends, last>>

\* EmbeddingService.generate_embeddings(texts)
GenerateEmbeddings ==
    \E texts \in Batches, call_ok \in BOOLEAN :
        /\ EmbedCall("generate_embeddings", "none", texts, call_ok, TRUE,
                     generate_embeddings(current_model, texts, call_ok))
        /\ UNCHANGED <<pipeVars, model_type>>

\* current_model.generate_batch(texts), on the provider the service holds
GenerateBatch ==
    \E texts \in Batches, call_ok \in BOOLEAN :
        /\ current_model # "none"
        /\ EmbedCall("generate_batch", "none", texts, call_ok, TRUE,
                     generate_batch(current_model, texts, call_ok))
        /\ UNCHANGED <<pipeVars, model_type>>

------------------------------------------------------------------------------
(* VectorDBManager (src/src/rag/vector_db/manager.py), called directly;    *)
(* switch_db runs statement by statement                                   *)

\* names a caller or settings.vector_db_provider can ask for: the registered
\* ones and one that is not registered
RequestedDbs == DbTypes \cup {"faiss"}

NoMgrCall ==
    [op |-> "none", name |-> "none", ok |-> FALSE,
     conn_before |-> NoConnector, type_before |-> "none"]

MgrIdle ==
    /\ m_pc = "idle"
    /\ m_name = "none"
    /\ m_dropped = {}
    /\ m_call = NoMgrCall

\* the state after VectorDBManager.__init__: "self.db_type = db_type or
\* settings.vector_db_provider", "self.current_connector = None",
\* "self.switch_db(self.db_type)" with its result dropped; __init__ returns
\* the instance whatever switch_db answered: ok = TRUE
ManagerInit ==
    \E name \in RequestedDbs, create_ok \in BOOLEAN, connect_ok \in BOOLEAN,
       pinecone_exists \in BOOLEAN :
        LET sw == switch_db(NoConnector, name,
                            EmptyBackends(pinecone_exists, "cosine"),
                            name, create_ok, connect_ok)
        IN  /\ current_connector = sw.conn
            /\ db_type = sw.db_type
            /\ backends = sw.be
            /\ m_pc = "idle"
            /\ m_name = "none"
            /\ m_dropped = {}
            /\ m_call = [NoMgrCall EXCEPT !.op = "__init__", !.name = name,
                                          !.ok = TRUE, !.type_before = name]

MgrCall(op, name, ok) ==
    m_call' = [op |-> op, name |-> name, ok |-> ok,
               conn_before |-> m_call.conn_before,
               type_before |-> m_call.type_before]

\* switch_db(db_type) is called: "if db_type not in self.connectors:
\* return False"
SwitchEnter ==
    \E name \in RequestedDbs :
        /\ m_pc = "idle"
        /\ m_name' = name
        /\ m_call' = [op |-> "switch_db", name |-> name, ok |-> FALSE,
                      conn_before |-> current_connector,
                      type_before |-> db_type]
        /\ m_pc' = IF name \in DbTypes THEN "disconnect" ELSE "idle"
        /\ UNCHANGED <<pipeVars, m_dropped>>

\* "if self.current_connector: self.current_connector.disconnect()"
SwitchDisconnect ==
    /\ m_pc = "disconnect"
    /\ current_connector' = IF current_connector.kind = "none"
                            THEN current_connector
                            ELSE disconnect(current_connector)
    /\ m_pc' = "create"
    /\ UNCHANGED <<now, cache_enabled, cache_files, current_model, db_type,
                   backends, last, m_name, m_dropped, m_call>>

\* "self.current_connector = connector_class(self.settings);
\* self.db_type = db_type"; when the constructor raises: "return False"
SwitchCreate ==
    \E create_ok \in BOOLEAN :
        /\ m_pc = "create"
        /\ IF create_ok
           THEN /\ m_dropped' = IF current_connector.kind = "none"
                                THEN m_dropped
                                ELSE m_dropped \cup {current_connector}
                /\ current_connector' = NewConnector(m_name)
                /\ db_type' = m_name
                /\ m_pc' = "connect"
                /\ UNCHANGED m_call
           ELSE /\ m_pc' = "idle"
                /\ MgrCall("switch_db", m_name, FALSE)
                /\ UNCHANGED <<current_connector, db_type, m_dropped>>
        /\ UNCHANGED <<now, cache_enabled, cache_files, current_model,
                       backends, last, m_name>>

\* "success = self.current_connector.connect(); return success"
SwitchConnect ==
    \E connect_ok \in BOOLEAN :
        LET c == connect(current_connector, backends, connect_ok)
        IN  /\ m_pc = "connect"
            /\ current_connector' = c.conn
            /\ backends' = c.be
            /\ m_pc' = "idle"
            /\ MgrCall("switch_db", m_name, c.result)
            /\ UNCHANGED <<now, cache_enabled, cache_files, current_model,
                           db_type, last, m_name, m_dropped>>

\* VectorDBManager.delete_document(doc_id), between two switches: the
\* connector connects first when it is not connected
ManagerDelete ==
    \E doc_id \in PipeIds, connect_ok \in BOOLEAN, delete_ok \in BOOLEAN :
        LET d == manager_delete(current_connector, backends, doc_id,
                                connect_ok, delete_ok)
        IN  /\ m_pc = "idle"
            /\ current_connector' = d.conn
            /\ backends' = d.be
            /\ m_call' = [op |-> "delete_document", name |-> "none",
                          ok |-> d.result,
                          conn_before |-> current_connector,
                          type_before |-> db_type]
            /\ UNCHANGED <<now, cache_enabled, cache_files, current_model,
                           db_type, last, m_pc, m_name, m_dropped>>

\* the manager alone, in front of an empty cache and without a service
MgrInit ==
    /\ now = 0
    /\ cache_enabled = FALSE
    /\ cache_files = [k \in PipeIds |-> NoFile]
    /\ current_model = "none"
    /\ last = NoCall
    /\ ManagerInit

\* the service and the manager, each constructed from configuration
SelectionInit ==
    /\ now = 0
    /\ cache_enabled = FALSE
    /\ cache_files = [k \in PipeIds |-> NoFile]
    /\ last = NoCall
    /\ ServiceInit
    /\ ManagerInit

------------------------------------------------------------------------------
(* One connector (src/src/rag/vector_db/chroma_db.py, pinecone_db.py),     *)
(* called directly                                                         *)

\* numbers of documents of one store_embeddings call: one, a full batch, a
\* batch and one
StoreSizes == {1, PineconeBatchSize, PineconeBatchSize + 1}

\* the i-th document of a call, with a caller-supplied id and its embedding
StoreDoc(i) ==
    [id |-> <<"doc_", i>>, text |-> <<"t">>, metadata |-> NoMeta,
     embedding |-> Embedding(OpenAIDimension, <<"t">>)]

StoreDocs(n) == [i \in 1..n |-> StoreDoc(i)]

NoConnCall ==
    [op |-> "none", ok |-> FALSE, call_ok |-> FALSE, n |-> 0,
     ids |-> << >>, written |-> << >>,
     existed_before |-> FALSE, connected_before |-> FALSE]

ConnIdle == k_call = NoConnCall

\* a connector after its constructor ("self.is_connected = False"), in front
\* of a backend with or without the configured collection / index
ConnInit ==
    /\ now = 0
    /\ cache_enabled = FALSE
    /\ cache_files = [k \in PipeIds |-> NoFile]
    /\ current_model = "none"
    /\ last = NoCall
    /\ k_call = NoConnCall
    /\ \E kind \in DbTypes, exists \in BOOLEAN, metric \in PineconeMetrics :
          /\ current_connector = NewConnector(kind)
          /\ db_type = kind
          /\ backends = [EmptyBackends(exists, metric)
                            EXCEPT !.chroma.exists = exists]

ConnCall(op, ok, call_ok, n, ids, written) ==
    k_call' = [op |-> op, ok |-> ok, call_ok |-> call_ok, n |-> n,
               ids |-> ids, written |-> written,
               existed_before |-> backends[current_connector.kind].exists,
               connected_before |-> current_connector.is_connected]

\* connector.connect()
ConnectorConnect ==
    \E call_ok \in BOOLEAN :
        LET c == connect(current_connector, backends, call_ok)
        IN  /\ current_connector' = c.conn
            /\ backends' = c.be
            /\ ConnCall("connect", c.result, call_ok, 0, << >>, << >>)
            /\ UNCHANGED <<now, cache_enabled, cache_files, current_model,
                           db_type, last>>

\* connector.disconnect()
ConnectorDisconnect ==
    /\ current_connector' = disconnect(current_connector)
    /\ ConnCall("disconnect", TRUE, TRUE, 0, << >>, << >>)
    /\ UNCHANGED <<now, cache_enabled, cache_files, current_model, db_type,
                   backends, last>>

\* connector.store_embeddings(documents); fail_at = the backend call that
\* raises, 0 for none
ConnectorStore ==
    \E n \in StoreSizes, connect_ok \in BOOLEAN, add_existing \in AddExisting :
        \E fail_at \in 0..backend_calls(current_connector.kind, n) :
            LET st == store_embeddings_at(current_connector, backends,
                                          StoreDocs(n), connect_ok, fail_at,
                                          add_existing)
            IN  /\ current_connector' = st.conn
                /\ backends' = st.be
                /\ ConnCall("store_embeddings", st.ids # << >>, fail_at = 0,
                            n, st.ids, st.written)
                /\ UNCHANGED <<now, cache_enabled, cache_files,
                               current_model, db_type, last>>

------------------------------------------------------------------------------
(* QueryProcessor, called directly                                         *)

MaxQueryLen == 3

\* characters of the short queries: a letter in both cases, whitespace, a
\* question mark, a character that process_query replaces
QueryAlphabet == {"a", "A", " ", "?", ","}

\* the scenario of the specification and queries that meet every rule
LongQueries ==
    {<<"W", "h", "a", "t", " ", "i", "s", " ", "t", "h", "e", " ", "c", "a", "p", "i", "t", "a", "l", " ", "o", "f", " ", "F", "r", "a", "n", "c", "e", "?">>,
     <<"x", " ", "y", " ", "z", " ", "w">>,
     <<"w", "h", "a", "t", " ", "i", "s", " ", "x", " ", "y", " ", "z", " ", "w", "?">>,
     <<"h", "o", "w", " ", "d", "o", "e", "s", " ", "i", "t", " ", "w", "o", "r", "k">>,
     <<"W", "h", "o", " ", " ", "w", "e", "r", "e", "\t", "t", "h", "e", " ", "a", ",", " ", "b", "?">>,
     <<"w", "h", "e", "r", "e", " ", "d", "i", "d", " ", "t", "h", "e", " ", "c", "a", "t", " ", "a", "n", "d", " ", "t", "h", "e", " ", "d", "o", "g", " ", "g", "o", "?">>,
     <<"w", "h", "y">>,
     <<"w", "h", "a", "t", " ", "i", "s">>,
     <<"W", "H", "A", "T", " ", "I", "S", " ", " ", "i", "t", "?">>,
     <<"h", "e", "l", "l", "o", "!">>,
     <<"w", "h", "e", "n", " ", "w", "a", "s", " ", "i", "t", ".", " ", "d", "o", "n", "e">>,
     <<"t", "h", "e", " ", "a", " ", "a", "n", " ", "a", "n", "d">>}

QueryInputs == SeqsUpTo(QueryAlphabet, MaxQueryLen) \cup LongQueries

QPIdle ==
    /\ p_query = << >>
    /\ p_expand = FALSE
    /\ p_out = << >>
    /\ p_pc = "idle"

\* a QueryProcessor(expand_queries) about to be called with a query
QPInit ==
    /\ p_query \in QueryInputs
    /\ p_expand \in BOOLEAN
    /\ p_out = << >>
    /\ p_pc = "call"

\* process_query(query)
ProcessQueryCall ==
    /\ p_pc = "call"
    /\ p_out' = << process_query(p_query) >>
    /\ p_pc' = "processed"
    /\ UNCHANGED <<p_query, p_expand>>

\* expand_query(query)
ExpandQueryCall ==
    /\ p_pc = "call"
    /\ p_out' = expand_query(p_query, p_expand)
    /\ p_pc' = "expanded"
    /\ UNCHANGED <<p_query, p_expand>>

------------------------------------------------------------------------------
(* Two concurrent DocumentProcessor.process_document calls with the same   *)
(* text and metadata, each running its steps in order: the cache check,    *)
(* the embedding, the upsert, the cache write.  The calls share the cache  *)
(* directory, the embedding service and the manager's connector.           *)

Calls == {1, 2}

NoLocal == [docs |-> << >>, result |-> << >>]

ConcIdle ==
    /\ cc_doc = << << >>, NoMeta >>
    /\ cc_pc = [p \in Calls |-> "done"]
    /\ cc_local = [p \in Calls |-> NoLocal]
    /\ cc_upserts = << >>

\* the id both calls compute
ConcDocId == generate_document_id(cc_doc[1], cc_doc[2])

\* a processor with a connected store and an empty cache directory, and two
\* calls about to start with the same non-empty text and metadata
ConcInit ==
    /\ now = 0
    /\ cache_enabled \in BOOLEAN
    /\ cache_files = [k \in PipeIds |-> NoFile]
    /\ current_model = "openai"
    /\ \E provider \in DbTypes :
          LET sw == switch_db(NoConnector, provider,
                              EmptyBackends(TRUE, "cosine"),
                              provider, TRUE, TRUE)
          IN  /\ current_connector = sw.conn
              /\ db_type = sw.db_type
              /\ backends = sw.be
    /\ last = NoCall
    /\ cc_doc \in {d \in PipeInputs : d[1] # << >>}
    /\ cc_pc = [p \in Calls |-> "check"]
    /\ cc_local = [p \in Calls |-> NoLocal]
    /\ cc_upserts = << >>

\* "if self.cache: cached_doc = self.cache.get(doc_id); if cached_doc:
\* return [doc_id]"
ConcCheck ==
    \E p \in Calls :
        LET cached_doc == IF cache_enabled
                          THEN cache_get(cache_files, ConcDocId, now, Ttl, TRUE)
                          ELSE NoDoc
        IN  /\ cc_pc[p] = "check"
            /\ IF cached_doc.found
               THEN /\ cc_pc' = [cc_pc EXCEPT ![p] = "done"]
                    /\ cc_local' = [cc_local EXCEPT
                                       ![p].result = << ConcDocId >>]
               ELSE /\ cc_pc' = [cc_pc EXCEPT ![p] = "embed"]
                    /\ UNCHANGED cc_local
            /\ UNCHANGED <<pipeVars, cc_doc, cc_upserts>>

\* process_documents, steps 1 to 3: chunk, embed the chunks in one batch (a
\* failed call gives zero vectors), attach the embeddings
ConcEmbed ==
    \E p \in Calls, embed_ok \in BOOLEAN :
        LET chunked == chunk_documents(<< Document(cc_doc[1], cc_doc[2]) >>,
                                       PipeChunkSize, PipeChunkOverlap)
            texts == [i \in 1..Len(chunked) |-> chunked[i].text]
            embeddings == generate_embeddings(current_model, texts, embed_ok)
        IN  /\ cc_pc[p] = "embed"
            /\ cc_pc' = [cc_pc EXCEPT ![p] = "upsert"]
            /\ cc_local' = [cc_local EXCEPT
                               ![p].docs = attach_embeddings(chunked, embeddings)]
            /\ UNCHANGED <<pipeVars, cc_doc, cc_upserts>>

\* process_documents, step 4: "doc_ids =
\* self.vector_db_manager.store_embeddings(chunked_docs)", the backend
\* answering
ConcUpsert ==
    \E p \in Calls, add_existing \in AddExisting :
        LET st == manager_store(current_connector, backends, cc_local[p].docs,
                                TRUE, TRUE, add_existing)
        IN  /\ cc_pc[p] = "upsert"
            /\ current_connector' = st.conn
            /\ backends' = st.be
            /\ cc_pc' = [cc_pc EXCEPT ![p] = "cache"]
            /\ cc_local' = [cc_local EXCEPT ![p].result = st.ids]
            /\ cc_upserts' = Append(cc_upserts, p)
            /\ UNCHANGED <<now, cache_enabled, cache_files, current_model,
                           db_type, last, cc_doc>>

\* process_documents, step 5: "if self.cache: ... self.cache.store(doc['id'],
\* doc)", then "return doc_ids"
ConcCacheWrite ==
    \E p \in Calls :
        /\ cc_pc[p] = "cache"
        /\ cache_files' =
              IF cache_enabled
              THEN cache_store(cache_files, ConcDocId,
                               Document(cc_doc[1], cc_doc[2]), now, "ok").files
              ELSE cache_files
        /\ cc_pc' = [cc_pc EXCEPT ![p] = "done"]
        /\ UNCHANGED <<now, cache_enabled, current_model, current_connector,
                       db_type, backends, last, cc_doc, cc_local, cc_upserts>>

------------------------------------------------------------------------------
(* One DocumentProcessor.query in flight while VectorDBManager.switch_db   *)
(* and EmbeddingService.set_model run in other threads.  Nothing is        *)
(* locked: the statements of the three calls interleave freely.  The       *)
(* backends are up, each store holds one document of its own.              *)

RaceBackends ==
    [chroma |-> [exists |-> TRUE, metric |-> "l2",
                 items |-> write_items(<< >>, << StoreDoc(1) >>)],
     pinecone |-> [exists |-> TRUE, metric |-> "cosine",
                   items |-> write_items(<< >>, << StoreDoc(2) >>)]]

NoSwitch == [pc |-> "idle", name |-> "none", type_before |-> "none"]

NoQuery ==
    [pc |-> "idle", model |-> "none", ref |-> 0, results |-> << >>,
     raced |-> FALSE]

RaceIdle ==
    /\ r_objs = << >>
    /\ r_cur = 0
    /\ r_sw = NoSwitch
    /\ r_q = NoQuery

\* a manager with a connected connector, a service with a provider, a query
\* about to start
RaceInit ==
    /\ now = 0
    /\ cache_enabled = FALSE
    /\ cache_files = [k \in PipeIds |-> NoFile]
    /\ current_model \in ModelNames
    /\ current_connector = NoConnector
    /\ db_type \in DbTypes
    /\ backends = RaceBackends
    /\ last = NoCall
    /\ r_objs = << [kind |-> db_type, is_connected |-> TRUE] >>
    /\ r_cur = 1
    /\ r_sw = NoSwitch
    /\ r_q = [NoQuery EXCEPT !.pc = "embed"]

\* what the backend of a store answers to the query: its nearest document
RaceResponse(kind) ==
    CHOOSE r \in Responses(backends[kind].items, 1) :
        Len(r) = 1 /\ r[1].distance = 0

\* what a connected connector of this kind returns for the query
ResultOf(kind) ==
    connector_query([kind |-> kind, is_connected |-> TRUE], backends,
                    Embedding(dimension("openai"), << >>), RaceResponse(kind),
                    TRUE, TRUE).results

\* DocumentProcessor.query: "query_embedding =
\* self.embedding_service.generate_embedding(query_text)" with the provider
\* that is the current one when it is read
RaceEmbed ==
    /\ r_q.pc = "embed"
    /\ r_q' = [r_q EXCEPT !.pc = "get", !.model = current_model]
    /\ UNCHANGED <<pipeVars, r_objs, r_cur, r_sw>>

\* VectorDBManager.query: "return self.current_connector.query(...)" reads
\* the manager's connector
RaceGetConnector ==
    /\ r_q.pc = "get"
    /\ r_q' = [r_q EXCEPT !.pc = "check", !.ref = r_cur]
    /\ UNCHANGED <<pipeVars, r_objs, r_cur, r_sw>>

\* connector.query: "if not self.is_connected: if not self.connect():
\* return []"
RaceCheckConnected ==
    LET c == ensure_connected(r_objs[r_q.ref], backends, TRUE)
    IN  /\ r_q.pc = "check"
        /\ r_objs' = [r_objs EXCEPT ![r_q.ref] = c.conn]
        /\ backends' = c.be
        /\ r_q' = IF c.result THEN [r_q EXCEPT !.pc = "call"]
                  ELSE [r_q EXCEPT !.pc = "done", !.results = << >>]
        /\ UNCHANGED <<now, cache_enabled, cache_files, current_model,
                       current_connector, db_type, last, r_cur, r_sw>>

\* connector.query: "results = self.collection.query(...)" inside try;
\* after a disconnect() of this connector self.collection is None, the call
\* raises and the except branch returns []
RaceBackendQuery ==
    LET conn == r_objs[r_q.ref]
    IN  /\ r_q.pc = "call"
        /\ r_q' = IF conn.is_connected
                  THEN [r_q EXCEPT !.pc = "done",
                                   !.results = ResultOf(conn.kind)]
                  ELSE [r_q EXCEPT !.pc = "done", !.results = << >>,
                                   !.raced = TRUE]
        /\ UNCHANGED <<pipeVars, r_objs, r_cur, r_sw>>

\* switch_db(db_type) with a registered name is called
RaceSwitchEnter ==
    \E name \in DbTypes :
        /\ r_sw.pc = "idle"
        /\ r_sw' = [pc |-> "disconnect", name |-> name, type_before |-> db_type]
        /\ UNCHANGED <<pipeVars, r_objs, r_cur, r_q>>

\* "if self.current_connector: self.current_connector.disconnect()"
RaceSwitchDisconnect ==
    /\ r_sw.pc = "disconnect"
    /\ r_objs' = [r_objs EXCEPT ![r_cur] = disconnect(@)]
    /\ r_sw' = [r_sw EXCEPT !.pc = "create"]
    /\ UNCHANGED <<pipeVars, r_cur, r_q>>

\* "self.current_connector = connector_class(self.settings);
\* self.db_type = db_type"
RaceSwitchCreate ==
    /\ r_sw.pc = "create"
    /\ r_objs' = Append(r_objs, NewConnector(r_sw.name))
    /\ r_cur' = Len(r_objs) + 1
    /\ db_type' = r_sw.name
    /\ r_sw' = [r_sw EXCEPT !.pc = "connect"]
    /\ UNCHANGED <<now, cache_enabled, cache_files, current_model,
                   current_connector, backends, last, r_q>>

\* "success = self.current_connector.connect(); return success"
RaceSwitchConnect ==
    LET c == connect(r_objs[r_cur], backends, TRUE)
    IN  /\ r_sw.pc = "connect"
        /\ r_objs' = [r_objs EXCEPT ![r_cur] = c.conn]
        /\ backends' = c.be
        /\ r_sw' = [r_sw EXCEPT !.pc = "done"]
        /\ UNCHANGED <<now, cache_enabled, cache_files, current_model,
                       current_connector, db_type, last, r_cur, r_q>>

\* set_model(model_type) with a registered name: "self.current_model =
\* model_class(self.settings)"
RaceSetModel ==
    \E name \in ModelNames :
        /\ last.op = "none"
        /\ current_model' = set_model(current_model, current_model, name,
                                      TRUE).model
        /\ last' = [NoCall EXCEPT !.op = "set_model"]
        /\ UNCHANGED <<now, cache_enabled, cache_files, current_connector,
                       db_type, backends, r_objs, r_cur, r_sw, r_q>>

------------------------------------------------------------------------------
(* The metadata PineconeConnector.store_embeddings passes to the backend   *)
(* (src/src/rag/vector_db/pinecone_db.py).  A dict is a sequence of        *)
(* <<key, value>> pairs in insertion order; a value carries its Python     *)
(* type.                                                                   *)

\* bound: how deep the metadata of the inputs is nested
MaxMetaDepth == 2

\* the types isinstance(value, (str, int, float, bool)) accepts, and the list
\* of strings
SimpleKinds == {"str", "int", "float", "bool", "strlist"}

Value(kind, val) == [kind |-> kind, val |-> val, items |-> << >>]

Dict(items) == [kind |-> "dict", val |-> "", items |-> items]

\* values that are no dict: simple ones, None, a list of numbers
Leaves ==
    {Value("str", "s"), Value("int", "1"), Value("float", "0.5"),
     Value("bool", "True"), Value("strlist", "['a']"), Value("none", "None"),
     Value("intlist", "[1, 2]")}

\* leaf under d levels of dicts with the key "c"
RECURSIVE Chain(_, _)
Chain(d, leaf) ==
    IF d = 0 THEN leaf ELSE Dict(<< <<"c", Chain(d - 1, leaf)>> >>)

\* the 'chunk' entry TextChunker.chunk_documents adds
ChunkEntry == Dict(<< <<"index", Value("int", "0")>>, <<"total", Value("int", "2")>> >>)

\* the number of dict levels under a value
RECURSIVE DepthOf(_)
DepthOf(v) ==
    IF v.kind # "dict" \/ v.items = << >> THEN 0
    ELSE 1 + SetMax({DepthOf(v.items[i][2]) : i \in 1..Len(v.items)})

\* documents: a text or none; metadata with one entry nested 0 to
\* MaxMetaDepth levels, alone or after a 'source', and the chunker's shape
FlatDocs ==
    [text : {<< >>, <<"t">>},
     metadata :
        {<< <<k, Chain(d, leaf)>> >> :
            k \in {"a", "text"}, d \in 0..MaxMetaDepth, leaf \in Leaves}
        \cup {<< <<"source", Value("str", "s")>>, <<"a", Chain(d, leaf)>> >> :
                 d \in 0..MaxMetaDepth, leaf \in Leaves}
        \cup {<< <<"source", Value("str", "s")>>, <<"chunk", ChunkEntry>> >>,
              << <<"a", Dict(<< <<"b", Value("int", "1")>> >>)>>,
                 <<"a_b", Value("str", "s")>> >>}]

\* "flattened_metadata[f"{key}_{sub_key}"] = sub_value" for the entries of a
\* nested dict, in order
RECURSIVE flatten_sub(_, _, _)
flatten_sub(key, items, flattened) ==
    IF items = << >> THEN flattened
    ELSE flatten_sub(key, Tail(items),
                     ((key \o "_" \o Head(items)[1]) :> Head(items)[2])
                         @@ flattened)

\* the loop "for key, value in metadata.items()": a dict is flattened one
\* level, a simple value is kept, anything else becomes str(value)
RECURSIVE flatten_metadata(_, _)
flatten_metadata(metadata, flattened) ==
    IF metadata = << >> THEN flattened
    ELSE LET key == Head(metadata)[1]
             value == Head(metadata)[2]
         IN  flatten_metadata(Tail(metadata),
                 IF value.kind = "dict"
                 THEN flatten_sub(key, value.items, flattened)
                 ELSE IF value.kind \in SimpleKinds
                 THEN (key :> value) @@ flattened
                 ELSE (key :> Value("str", value.val)) @@ flattened)

\* the 'metadata' of the vector: the flattened metadata and, for a non-empty
\* text, "flattened_metadata['text'] = doc['text']"
vector_metadata(doc) ==
    LET flattened == flatten_metadata(doc.metadata, << >>)
    IN  IF doc.text # << >>
        THEN ("text" :> Value("str", "t")) @@ flattened
        ELSE flattened

FlatIdle ==
    /\ f_doc = [text |-> << >>, metadata |-> << >>]
    /\ f_out = << >>
    /\ f_pc = "idle"

FlatInit ==
    /\ f_doc \in FlatDocs
    /\ f_out = << >>
    /\ f_pc = "call"

\* store_embeddings builds the vector of the document
BuildVector ==
    /\ f_pc = "call"
    /\ f_out' = vector_metadata(f_doc)
    /\ f_pc' = "done"
    /\ UNCHANGED f_doc

------------------------------------------------------------------------------
(* DocumentProcessor.process_documents(list), one step per statement       *)
(* (src/src/rag/document/processor.py), with the calls it makes recorded   *)

\* bound: the documents of one call
MaxBatchDocs == 2

\* a document without an 'id' key
NoId == << >>

\* the ids callers supply
CallerIds == {<<"d", "1">>, <<"d", "2">>}

\* the id the connector generates for the i-th document of a call that has
\* none ("doc.get('id', str(uuid.uuid4()))")
uuid4(i) == <<"uuid">> \o Rep("i", i)

\* documents: with or without id; an empty text, a text of one chunk, a
\* text of several chunks
BatchDocs ==
    [id : CallerIds \cup {NoId},
     text : {<< >>, Rep("a", PipeChunkSize), Rep("b", PipeChunkSize + 1)},
     metadata : {NoMeta}]

NoBatchDoc == [id |-> NoId, text |-> << >>, metadata |-> NoMeta]

\* a recorded call: generate_embeddings(texts), store_embeddings(docs),
\* cache.store(doc['id'], doc)
EmbedEvent(texts) ==
    [op |-> "embed", texts |-> texts, docs |-> << >>, doc |-> NoBatchDoc]

StoreEvent(docs) ==
    [op |-> "store", texts |-> << >>, docs |-> docs, doc |-> NoBatchDoc]

CacheEvent(doc) ==
    [op |-> "cache", texts |-> << >>, docs |-> << >>, doc |-> doc]

\* mutant: every document of the call is written to the cache
every_document(documents) == documents

\* "for doc in documents: if 'id' in doc": the documents the cache step
\* writes, in order
with_id(documents) ==
    SelectSeq(documents, LAMBDA doc : doc.id # NoId)

\* the cache.store calls of step 5
cache_calls(documents) ==
    [i \in 1..Len(with_id(documents)) |-> CacheEvent(with_id(documents)[i])]

\* what vector_db_manager.store_embeddings returns: [] when a chunk has no
\* 'embedding' or the backend fails, else the ids of the chunks, generated
\* where the chunk has none
stored_ids(chunked_docs, backend_ok) ==
    IF ~backend_ok \/ \E i \in 1..Len(chunked_docs) :
                         chunked_docs[i].embedding = NoEmbedding
    THEN << >>
    ELSE [i \in 1..Len(chunked_docs) |->
             IF chunked_docs[i].id = NoId THEN uuid4(i) ELSE chunked_docs[i].id]

BatchIdle ==
    /\ b_docs = << >>
    /\ b_cache = FALSE
    /\ b_pc = "idle"
    /\ b_chunked = << >>
    /\ b_ids = << >>
    /\ b_trace = << >>

BatchInit ==
    /\ b_docs \in SeqsUpTo(BatchDocs, MaxBatchDocs)
    /\ b_cache \in BOOLEAN
    /\ b_pc = "call"
    /\ b_chunked = << >>
    /\ b_ids = << >>
    /\ b_trace = << >>

\* "if not documents: return []"
BatchEmpty ==
    /\ b_pc = "call"
    /\ b_docs = << >>
    /\ b_pc' = "done"
    /\ UNCHANGED <<b_docs, b_cache, b_chunked, b_ids, b_trace>>

\* step 1: chunked_docs = self.chunker.chunk_documents(documents)
BatchChunk ==
    /\ b_pc = "call"
    /\ b_docs # << >>
    /\ b_chunked' = chunk_documents(b_docs, PipeChunkSize, PipeChunkOverlap)
    /\ b_pc' = "chunked"
    /\ UNCHANGED <<b_docs, b_cache, b_ids, b_trace>>

\* steps 2 and 3: one generate_embeddings call for the texts of all chunks;
\* the embeddings it returns are attached to the chunks
BatchEmbed ==
    /\ b_pc = "chunked"
    /\ \E model \in {"none", "openai"}, call_ok \in BOOLEAN :
         LET texts == [i \in 1..Len(b_chunked) |-> b_chunked[i].text]
             embeddings == generate_embeddings(model, texts, call_ok)
         IN  /\ b_chunked' = attach_embeddings(b_chunked, embeddings)
             /\ b_trace' = Append(b_trace, EmbedEvent(texts))
    /\ b_pc' = "embedded"
    /\ UNCHANGED <<b_docs, b_cache, b_ids>>

\* step 4: doc_ids = self.vector_db_manager.store_embeddings(chunked_docs)
BatchStore ==
    /\ b_pc = "embedded"
    /\ \E backend_ok \in BOOLEAN :
         b_ids' = stored_ids(b_chunked, backend_ok)
    /\ b_trace' = Append(b_trace, StoreEvent(b_chunked))
    /\ b_pc' = "stored"
    /\ UNCHANGED <<b_docs, b_cache, b_chunked>>

\* step 5: "if self.cache: for doc in documents: if 'id' in doc:
\* self.cache.store(doc['id'], doc)"
BatchCache ==
    /\ b_pc = "stored"
    /\ b_trace' = IF b_cache THEN b_trace \o cache_calls(b_docs) ELSE b_trace
    /\ b_pc' = "cached"
    /\ UNCHANGED <<b_docs, b_cache, b_chunked, b_ids>>

\* "return doc_ids"
BatchReturn ==
    /\ b_pc = "cached"
    /\ b_pc' = "done"
    /\ UNCHANGED <<b_docs, b_cache, b_chunked, b_ids, b_trace>>

------------------------------------------------------------------------------
(* Specifications, one per component *)

\* one call of chunk_text
InitChunk == ChunkInit /\ EnhIdle /\ PipeIdle /\ QueryIdle /\ EmbedIdle /\ MgrIdle /\ ConnIdle /\ QPIdle /\ ConcIdle /\ RaceIdle /\ FlatIdle /\ BatchIdle

ChunkNext ==
    \/ ChunkEnter /\ UNCHANGED <<enhVars, pipeVars, queryVars, embedVars, mgrVars, connVars, qpVars, ccVars, raceVars, flatVars, batchVars>>
    \/ ChunkRemainder /\ UNCHANGED <<enhVars, pipeVars, queryVars, embedVars, mgrVars, connVars, qpVars, ccVars, raceVars, flatVars, batchVars>>
    \/ ChunkSplit /\ UNCHANGED <<enhVars, pipeVars, queryVars, embedVars, mgrVars, connVars, qpVars, ccVars, raceVars, flatVars, batchVars>>

SpecChunk == InitChunk /\ [][ChunkNext]_vars

\* one call of enhance
InitEnhance == EnhInit /\ ChunkIdle /\ PipeIdle /\ QueryIdle /\ EmbedIdle /\ MgrIdle /\ ConnIdle /\ QPIdle /\ ConcIdle /\ RaceIdle /\ FlatIdle /\ BatchIdle

EnhanceNext == EnhanceCall /\ UNCHANGED <<chunkVars, pipeVars, queryVars, embedVars, mgrVars, connVars, qpVars, ccVars, raceVars, flatVars, batchVars>>

SpecEnhance == InitEnhance /\ [][EnhanceNext]_vars

\* the cache on its own
InitCache == CacheInit /\ ChunkIdle /\ EnhIdle /\ QueryIdle /\ EmbedIdle /\ MgrIdle /\ ConnIdle /\ QPIdle /\ ConcIdle /\ RaceIdle /\ FlatIdle /\ BatchIdle

CacheNext ==
    \/ Tick /\ UNCHANGED <<chunkVars, enhVars, queryVars, embedVars, mgrVars, connVars, qpVars, ccVars, raceVars, flatVars, batchVars>>
    \/ CacheStore /\ UNCHANGED <<chunkVars, enhVars, queryVars, embedVars, mgrVars, connVars, qpVars, ccVars, raceVars, flatVars, batchVars>>
    \/ CacheGet /\ UNCHANGED <<chunkVars, enhVars, queryVars, embedVars, mgrVars, connVars, qpVars, ccVars, raceVars, flatVars, batchVars>>
    \/ CacheInvalidate /\ UNCHANGED <<chunkVars, enhVars, queryVars, embedVars, mgrVars, connVars, qpVars, ccVars, raceVars, flatVars, batchVars>>
    \/ CacheClear /\ UNCHANGED <<chunkVars, enhVars, queryVars, embedVars, mgrVars, connVars, qpVars, ccVars, raceVars, flatVars, batchVars>>

SpecCache == InitCache /\ [][CacheNext]_vars

\* the document pipeline
Init == PipeInit /\ ChunkIdle /\ EnhIdle /\ QueryIdle /\ EmbedIdle /\ MgrIdle /\ ConnIdle /\ QPIdle /\ ConcIdle /\ RaceIdle /\ FlatIdle /\ BatchIdle

Next ==
    \/ Tick /\ UNCHANGED <<chunkVars, enhVars, queryVars, embedVars, mgrVars, connVars, qpVars, ccVars, raceVars, flatVars, batchVars>>
    \/ ProcessDocument /\ UNCHANGED <<chunkVars, enhVars, queryVars, embedVars, mgrVars, connVars, qpVars, ccVars, raceVars, flatVars, batchVars>>
    \/ DeleteDocument /\ UNCHANGED <<chunkVars, enhVars, queryVars, embedVars, mgrVars, connVars, qpVars, ccVars, raceVars, flatVars, batchVars>>

Spec == Init /\ [][Next]_vars

\* the cache called directly and through the processor, working or failing
InitSwitching == SwitchingInit /\ ChunkIdle /\ EnhIdle /\ QueryIdle /\ EmbedIdle /\ MgrIdle /\ ConnIdle /\ QPIdle /\ ConcIdle /\ RaceIdle /\ FlatIdle /\ BatchIdle

SwitchingNext ==
    \/ ProcessDocumentIn(SwitchingEnvs)
           /\ UNCHANGED <<chunkVars, enhVars, queryVars, embedVars, mgrVars, connVars, qpVars, ccVars, raceVars, flatVars, batchVars>>
    \/ DeleteDocumentIn(SwitchingEnvs)
           /\ UNCHANGED <<chunkVars, enhVars, queryVars, embedVars, mgrVars, connVars, qpVars, ccVars, raceVars, flatVars, batchVars>>
    \/ SwitchDb /\ UNCHANGED <<chunkVars, enhVars, queryVars, embedVars, mgrVars, connVars, qpVars, ccVars, raceVars, flatVars, batchVars>>

SpecSwitching == InitSwitching /\ [][SwitchingNext]_vars

InitCacheFaults == CacheFaultsInit /\ ChunkIdle /\ EnhIdle /\ QueryIdle /\ EmbedIdle /\ MgrIdle /\ ConnIdle /\ QPIdle /\ ConcIdle /\ RaceIdle /\ FlatIdle /\ BatchIdle

CacheFaultsNext ==
    \/ Tick /\ UNCHANGED <<chunkVars, enhVars, queryVars, embedVars, mgrVars, connVars, qpVars, ccVars, raceVars, flatVars, batchVars>>
    \/ CacheStore /\ UNCHANGED <<chunkVars, enhVars, queryVars, embedVars, mgrVars, connVars, qpVars, ccVars, raceVars, flatVars, batchVars>>
    \/ CacheGet /\ UNCHANGED <<chunkVars, enhVars, queryVars, embedVars, mgrVars, connVars, qpVars, ccVars, raceVars, flatVars, batchVars>>
    \/ CacheInvalidate /\ UNCHANGED <<chunkVars, enhVars, queryVars, embedVars, mgrVars, connVars, qpVars, ccVars, raceVars, flatVars, batchVars>>
    \/ CacheClear /\ UNCHANGED <<chunkVars, enhVars, queryVars, embedVars, mgrVars, connVars, qpVars, ccVars, raceVars, flatVars, batchVars>>
    \/ CacheGetStats /\ UNCHANGED <<chunkVars, enhVars, queryVars, embedVars, mgrVars, connVars, qpVars, ccVars, raceVars, flatVars, batchVars>>
    \/ ProcessDocumentIn(CacheFaultEnvs)
           /\ UNCHANGED <<chunkVars, enhVars, queryVars, embedVars, mgrVars, connVars, qpVars, ccVars, raceVars, flatVars, batchVars>>
    \/ DeleteDocumentIn(CacheFaultEnvs)
           /\ UNCHANGED <<chunkVars, enhVars, queryVars, embedVars, mgrVars, connVars, qpVars, ccVars, raceVars, flatVars, batchVars>>

SpecCacheFaults == InitCacheFaults /\ [][CacheFaultsNext]_vars

\* ingestion, deletion and queries on the store; a call begins when the
\* previous query has returned
InitEmbed == EmbedInit /\ ChunkIdle /\ EnhIdle /\ QueryIdle /\ MgrIdle /\ ConnIdle /\ QPIdle /\ ConcIdle /\ RaceIdle /\ FlatIdle /\ BatchIdle

EmbedNext ==
    \/ SetModel /\ UNCHANGED <<chunkVars, enhVars, queryVars, mgrVars, connVars, qpVars, ccVars, raceVars, flatVars, batchVars>>
    \/ GenerateEmbeddings /\ UNCHANGED <<chunkVars, enhVars, queryVars, mgrVars, connVars, qpVars, ccVars, raceVars, flatVars, batchVars>>
    \/ GenerateBatch /\ UNCHANGED <<chunkVars, enhVars, queryVars, mgrVars, connVars, qpVars, ccVars, raceVars, flatVars, batchVars>>

SpecEmbed == InitEmbed /\ [][EmbedNext]_vars

InitManager == MgrInit /\ ChunkIdle /\ EnhIdle /\ QueryIdle /\ EmbedIdle /\ ConnIdle /\ QPIdle /\ ConcIdle /\ RaceIdle /\ FlatIdle /\ BatchIdle

ManagerNext ==
    \/ SwitchEnter /\ UNCHANGED <<chunkVars, enhVars, queryVars, embedVars, connVars, qpVars, ccVars, raceVars, flatVars, batchVars>>
    \/ SwitchDisconnect /\ UNCHANGED <<chunkVars, enhVars, queryVars, embedVars, connVars, qpVars, ccVars, raceVars, flatVars, batchVars>>
    \/ SwitchCreate /\ UNCHANGED <<chunkVars, enhVars, queryVars, embedVars, connVars, qpVars, ccVars, raceVars, flatVars, batchVars>>
    \/ SwitchConnect /\ UNCHANGED <<chunkVars, enhVars, queryVars, embedVars, connVars, qpVars, ccVars, raceVars, flatVars, batchVars>>
    \/ ManagerDelete /\ UNCHANGED <<chunkVars, enhVars, queryVars, embedVars, connVars, qpVars, ccVars, raceVars, flatVars, batchVars>>

SpecManager == InitManager /\ [][ManagerNext]_vars

InitSelection == SelectionInit /\ ChunkIdle /\ EnhIdle /\ QueryIdle /\ ConnIdle /\ QPIdle /\ ConcIdle /\ RaceIdle /\ FlatIdle /\ BatchIdle

SelectionNext ==
    \/ SetModel /\ UNCHANGED <<chunkVars, enhVars, queryVars, mgrVars, connVars, qpVars, ccVars, raceVars, flatVars, batchVars>>
    \/ SwitchEnter /\ UNCHANGED <<chunkVars, enhVars, queryVars, embedVars, connVars, qpVars, ccVars, raceVars, flatVars, batchVars>>
    \/ SwitchDisconnect /\ UNCHANGED <<chunkVars, enhVars, queryVars, embedVars, connVars, qpVars, ccVars, raceVars, flatVars, batchVars>>
    \/ SwitchCreate /\ UNCHANGED <<chunkVars, enhVars, queryVars, embedVars, connVars, qpVars, ccVars, raceVars, flatVars, batchVars>>
    \/ SwitchConnect /\ UNCHANGED <<chunkVars, enhVars, queryVars, embedVars, connVars, qpVars, ccVars, raceVars, flatVars, batchVars>>

SpecSelection == InitSelection /\ [][SelectionNext]_vars

InitConnector == ConnInit /\ ChunkIdle /\ EnhIdle /\ QueryIdle /\ EmbedIdle /\ MgrIdle /\ QPIdle /\ ConcIdle /\ RaceIdle /\ FlatIdle /\ BatchIdle

ConnectorNext ==
    \/ ConnectorConnect
          /\ UNCHANGED <<chunkVars, enhVars, queryVars, embedVars, mgrVars, qpVars, ccVars, raceVars, flatVars, batchVars>>
    \/ ConnectorDisconnect
          /\ UNCHANGED <<chunkVars, enhVars, queryVars, embedVars, mgrVars, qpVars, ccVars, raceVars, flatVars, batchVars>>
    \/ ConnectorStore
          /\ UNCHANGED <<chunkVars, enhVars, queryVars, embedVars, mgrVars, qpVars, ccVars, raceVars, flatVars, batchVars>>

SpecConnector == InitConnector /\ [][ConnectorNext]_vars

InitQueryProcessor == QPInit /\ ChunkIdle /\ EnhIdle /\ PipeIdle /\ QueryIdle /\ EmbedIdle /\ MgrIdle /\ ConnIdle /\ ConcIdle /\ RaceIdle /\ FlatIdle /\ BatchIdle

QueryProcessorNext ==
    \/ ProcessQueryCall
          /\ UNCHANGED <<chunkVars, enhVars, pipeVars, queryVars, embedVars,
                         mgrVars, connVars, ccVars, raceVars, flatVars, batchVars>>
    \/ ExpandQueryCall
          /\ UNCHANGED <<chunkVars, enhVars, pipeVars, queryVars, embedVars,
                         mgrVars, connVars, ccVars, raceVars, flatVars, batchVars>>

SpecQueryProcessor == InitQueryProcessor /\ [][QueryProcessorNext]_vars

InitConcurrent == ConcInit /\ ChunkIdle /\ EnhIdle /\ QueryIdle /\ EmbedIdle /\ MgrIdle /\ ConnIdle /\ QPIdle /\ RaceIdle /\ FlatIdle /\ BatchIdle

ConcurrentNext ==
    \/ ConcCheck
          /\ UNCHANGED <<chunkVars, enhVars, queryVars, embedVars, mgrVars,
                         connVars, qpVars, raceVars, flatVars, batchVars>>
    \/ ConcEmbed
          /\ UNCHANGED <<chunkVars, enhVars, queryVars, embedVars, mgrVars,
                         connVars, qpVars, raceVars, flatVars, batchVars>>
    \/ ConcUpsert
          /\ UNCHANGED <<chunkVars, enhVars, queryVars, embedVars, mgrVars,
                         connVars, qpVars, raceVars, flatVars, batchVars>>
    \/ ConcCacheWrite
          /\ UNCHANGED <<chunkVars, enhVars, queryVars, embedVars, mgrVars,
                         connVars, qpVars, raceVars, flatVars, batchVars>>

SpecConcurrent == InitConcurrent /\ [][ConcurrentNext]_vars

InitRace == RaceInit /\ ChunkIdle /\ EnhIdle /\ QueryIdle /\ EmbedIdle /\ MgrIdle /\ ConnIdle /\ QPIdle /\ ConcIdle /\ FlatIdle /\ BatchIdle

RaceNext ==
    \/ RaceEmbed /\ UNCHANGED <<chunkVars, enhVars, queryVars, embedVars, mgrVars, connVars, qpVars, ccVars, flatVars, batchVars>>
    \/ RaceGetConnector /\ UNCHANGED <<chunkVars, enhVars, queryVars, embedVars, mgrVars, connVars, qpVars, ccVars, flatVars, batchVars>>
    \/ RaceCheckConnected /\ UNCHANGED <<chunkVars, enhVars, queryVars, embedVars, mgrVars, connVars, qpVars, ccVars, flatVars, batchVars>>
    \/ RaceBackendQuery /\ UNCHANGED <<chunkVars, enhVars, queryVars, embedVars, mgrVars, connVars, qpVars, ccVars, flatVars, batchVars>>
    \/ RaceSwitchEnter /\ UNCHANGED <<chunkVars, enhVars, queryVars, embedVars, mgrVars, connVars, qpVars, ccVars, flatVars, batchVars>>
    \/ RaceSwitchDisconnect /\ UNCHANGED <<chunkVars, enhVars, queryVars, embedVars, mgrVars, connVars, qpVars, ccVars, flatVars, batchVars>>
    \/ RaceSwitchCreate /\ UNCHANGED <<chunkVars, enhVars, queryVars, embedVars, mgrVars, connVars, qpVars, ccVars, flatVars, batchVars>>
    \/ RaceSwitchConnect /\ UNCHANGED <<chunkVars, enhVars, queryVars, embedVars, mgrVars, connVars, qpVars, ccVars, flatVars, batchVars>>
    \/ RaceSetModel /\ UNCHANGED <<chunkVars, enhVars, queryVars, embedVars, mgrVars, connVars, qpVars, ccVars, flatVars, batchVars>>

SpecRace == InitRace /\ [][RaceNext]_vars

InitFlatten == FlatInit /\ ChunkIdle /\ EnhIdle /\ PipeIdle /\ QueryIdle /\ EmbedIdle /\ MgrIdle /\ ConnIdle /\ QPIdle /\ ConcIdle /\ RaceIdle /\ BatchIdle

FlattenNext ==
    \/ BuildVector /\ UNCHANGED <<chunkVars, enhVars, pipeVars, queryVars, embedVars, mgrVars, connVars, qpVars, ccVars, raceVars, batchVars>>

SpecFlatten == InitFlatten /\ [][FlattenNext]_vars

InitBatch == BatchInit /\ ChunkIdle /\ EnhIdle /\ PipeIdle /\ QueryIdle /\ EmbedIdle /\ MgrIdle /\ ConnIdle /\ QPIdle /\ ConcIdle /\ RaceIdle /\ FlatIdle

BatchNext ==
    \/ BatchEmpty /\ UNCHANGED <<chunkVars, enhVars, pipeVars, queryVars, embedVars, mgrVars, connVars, qpVars, ccVars, raceVars, flatVars>>
    \/ BatchChunk /\ UNCHANGED <<chunkVars, enhVars, pipeVars, queryVars, embedVars, mgrVars, connVars, qpVars, ccVars, raceVars, flatVars>>
    \/ BatchEmbed /\ UNCHANGED <<chunkVars, enhVars, pipeVars, queryVars, embedVars, mgrVars, connVars, qpVars, ccVars, raceVars, flatVars>>
    \/ BatchStore /\ UNCHANGED <<chunkVars, enhVars, pipeVars, queryVars, embedVars, mgrVars, connVars, qpVars, ccVars, raceVars, flatVars>>
    \/ BatchCache /\ UNCHANGED <<chunkVars, enhVars, pipeVars, queryVars, embedVars, mgrVars, connVars, qpVars, ccVars, raceVars, flatVars>>
    \/ BatchReturn /\ UNCHANGED <<chunkVars, enhVars, pipeVars, queryVars, embedVars, mgrVars, connVars, qpVars, ccVars, raceVars, flatVars>>

SpecBatch == InitBatch /\ [][BatchNext]_vars

InitQuery == QueryInit /\ ChunkIdle /\ EnhIdle /\ EmbedIdle /\ MgrIdle /\ ConnIdle /\ QPIdle /\ ConcIdle /\ RaceIdle /\ FlatIdle /\ BatchIdle

QueryNext ==
    \/ ProcessorQuery /\ UNCHANGED <<chunkVars, enhVars, embedVars, mgrVars, connVars, qpVars, ccVars, raceVars, flatVars, batchVars>>
    \/ EngineQuery /\ UNCHANGED <<chunkVars, enhVars, embedVars, mgrVars, connVars, qpVars, ccVars, raceVars, flatVars, batchVars>>
    \/ QueryReturn /\ UNCHANGED <<chunkVars, enhVars, embedVars, mgrVars, connVars, qpVars, ccVars, raceVars, flatVars, batchVars>>
    \/ /\ q_op = "idle"
       /\ ProcessDocument
       /\ UNCHANGED <<chunkVars, enhVars, queryVars, embedVars, mgrVars, connVars, qpVars, ccVars, raceVars, flatVars, batchVars>>
    \/ /\ q_op = "idle"
       /\ DeleteDocument
       /\ UNCHANGED <<chunkVars, enhVars, queryVars, embedVars, mgrVars, connVars, qpVars, ccVars, raceVars, flatVars, batchVars>>

SpecQuery == InitQuery /\ [][QueryNext]_vars

------------------------------------------------------------------------------
(* Chunker properties *)

\* the chunks with the part already covered by earlier chunks removed,
\* concatenated in order
RECURSIVE Reconstruct(_, _, _, _)
Reconstruct(chunks, spans, i, acc) ==
    IF i > Len(chunks) THEN acc
    ELSE LET skip == Max(0, Len(acc) - spans[i][1])
         IN  Reconstruct(chunks, spans, i + 1, acc \o SliceFrom(chunks[i], skip))

\* number of offsets two spans <<s, e>> share
Shared(x, y) == Max(0, Min(x[2], y[2]) - Max(x[1], y[1]))

\* C6: the chunks returned by chunk_text (chunk_overlap < chunk_size) are spans
\* of the text without a gap: the first starts at offset 0, every later chunk
\* starts at or before the end of its predecessor, the last ends at
\* end-of-text, and the chunks with the overlapped prefixes removed
\* concatenate to the original text.
C6_ChunksCoverText ==
    (c_pc = "done" /\ c_overlap < c_size) =>
        /\ Len(c_spans) = Len(c_chunks)
        /\ \A i \in 1..Len(c_chunks) :
              c_chunks[i] = Slice(c_text, c_spans[i][1], c_spans[i][2])
        /\ Len(c_chunks) > 0 => c_spans[1][1] = 0
        /\ \A i \in 2..Len(c_chunks) : c_spans[i][1] <= c_spans[i - 1][2]
        /\ Len(c_chunks) > 0 => c_spans[Len(c_chunks)][2] = Len(c_text)
        /\ Reconstruct(c_chunks, c_spans, 1, << >>) = c_text

\* a returned list of at least three chunks, one of them cut at a terminator
\* before the window boundary, with a non-zero overlap
C6_Witness ==
    /\ c_pc = "done"
    /\ c_overlap > 0
    /\ Len(c_chunks) >= 3
    /\ \E i \in 1..Len(c_chunks) :
          /\ c_spans[i][2] < c_spans[i][1] + c_size
          /\ c_spans[i][2] < Len(c_text)

\* C7: every chunk has at most chunk_size characters; every chunk after the
\* first starts at max(0, split_point - chunk_overlap) of its predecessor and
\* shares at most chunk_overlap characters with it; 1500 characters without
\* terminators under chunk_size 1000 / chunk_overlap 200 give exactly two
\* chunks, the second starting at offset 800.
C7_ChunkSizeAndOverlap ==
    /\ \A i \in 1..Len(c_chunks) : Len(c_chunks[i]) <= c_size
    /\ \A i \in 2..Len(c_chunks) :
          /\ c_spans[i][1] = Max(0, c_spans[i - 1][2] - c_overlap)
          /\ Shared(c_spans[i], c_spans[i - 1]) <= c_overlap
    /\ (c_pc = "done" /\ c_text = ScenarioText
           /\ c_size = DefaultChunkSize /\ c_overlap = DefaultChunkOverlap) =>
          /\ Len(c_chunks) = 2
          /\ c_spans[2][1] = 800
          /\ Len(c_chunks[1]) = 1000
          /\ Len(c_chunks[2]) = 700

\* the documented scenario has returned
C7_Witness ==
    /\ c_pc = "done"
    /\ c_text = ScenarioText
    /\ c_size = DefaultChunkSize
    /\ c_overlap = DefaultChunkOverlap
    /\ Len(c_chunks) = 2

\* C8 as stated: for every text of length 0..chunk_size, chunk_text returns
\* exactly [text].
C8_Original ==
    (c_pc = "done" /\ Len(c_text) <= c_size) => c_chunks = << c_text >>

\* C8 amended: a non-empty text of at most chunk_size characters is returned
\* as the one-element list [text]; the empty text is returned as the empty
\* list.
C8_ShortTextSingleChunk ==
    (c_pc = "done" /\ Len(c_text) <= c_size) =>
        /\ Len(c_text) > 0 => c_chunks = << c_text >>
        /\ Len(c_text) = 0 => c_chunks = << >>

\* a text of exactly chunk_size characters has been returned
C8_Witness ==
    /\ c_pc = "done"
    /\ Len(c_text) = c_size
    /\ c_chunks = << c_text >>


------------------------------------------------------------------------------
(* Context enhancer properties *)

\* C1: for every query and every list of ranked results, the string returned
\* by enhance has at most max_context_length characters.
C1_ContextWithinBudget ==
    e_pc = "done" => Len(e_out) <= e_max

------------------------------------------------------------------------------
(* Properties of the cache and of the document pipeline *)

\* the entry DocumentCache.get is looking at, in the state it is called in
C3_Entry == cache_files[last'.doc_id]

\* C3: an entry written by store at time T is returned by get at every time t
\* with t - T <= ttl and reported absent at every t with t - T > ttl, although
\* the entry is still stored (no sweep removed it).  Stated of every get
\* whose file read goes through.
C3_CacheTtl ==
    [][ ( /\ last'.op = "get" /\ last'.clean
          /\ now' = now /\ cache_files' = cache_files
          /\ C3_Entry.state = "entry" )
        => /\ now - C3_Entry.cached_time <= Ttl
                => /\ last'.doc.found
                   /\ last'.doc.doc = C3_Entry.doc
           /\ now - C3_Entry.cached_time > Ttl
                => ~last'.doc.found ]_vars

\* a get at T + ttl + 1 answered absent while the entry is still stored
C3_Witness ==
    /\ last.op = "get" /\ last.clean
    /\ ~last.doc.found
    /\ cache_files[last.doc_id].state = "entry"
    /\ now - cache_files[last.doc_id].cached_time = Ttl + 1

\* a get at exactly T + ttl answered with the stored document
C3_WitnessBoundary ==
    /\ last.op = "get" /\ last.clean
    /\ cache_files[last.doc_id].state = "entry"
    /\ last.doc.found
    /\ last.doc.doc = cache_files[last.doc_id].doc
    /\ now - cache_files[last.doc_id].cached_time = Ttl

\* C2: with the cache enabled and an unexpired entry for the document, a
\* second process_document call with the same non-empty text and the same
\* metadata returns the id the first call returned, is a cache hit, and
\* issues no embedding call and no upsert.  (The returned lists are compared
\* as sets of ids; nothing fails during the second call.)
C2_IdempotentIngestion ==
    [][ ( /\ last.op = "process_document" /\ last'.op = "process_document"
          /\ last'.doc_id = last.doc_id
          /\ now' = now
          /\ cache_enabled /\ last'.clean
          /\ last.doc_id \in DOMAIN cache_files
          /\ cache_files[last.doc_id].state = "entry"
          /\ now - cache_files[last.doc_id].cached_time <= Ttl )
        => /\ {last'.result[i] : i \in DOMAIN last'.result}
                = {last.result[i] : i \in DOMAIN last.result}
           /\ last'.cache_hit
           /\ last'.embed_calls = 0 /\ last'.upsert_calls = 0 ]_vars

\* C9: delete_document for an id that is not in the store returns false, on
\* either connector and through DocumentProcessor.delete_document, and the
\* cache's invalidate of an id it has no file for returns true.
C9_DeleteAbsent ==
    (last.op = "delete_document" /\ ~last.stored_before)
        => /\ ~last.ok
           /\ ~last.cached_before => last.invalidated

------------------------------------------------------------------------------
(* Properties of the queries *)

\* the ids of a result list
IdsOf(results) == {results[i].id : i \in 1..Len(results)}

\* the first result with this id in a list that has one
FirstWithId(results, id) ==
    results[CHOOSE i \in 1..Len(results) :
                /\ results[i].id = id
                /\ \A j \in 1..(i - 1) : results[j].id # id]

NonIncreasingScores(results) ==
    \A i \in 1..(Len(results) - 1) : results[i].score >= results[i + 1].score

\* C4: every id occurs exactly once in the documents RAGQueryEngine.query
\* returns, also when several query variants returned a result with that id.
C4_EngineResultsUnique ==
    q_op = "engine_query"
        => \A i, j \in 1..Len(q_docs) : i # j => q_docs[i].id # q_docs[j].id

\* two variants returned the same id and the id is in the returned documents
C4_Witness ==
    /\ q_op = "engine_query"
    /\ \E a, b \in 1..Len(q_lists) :
          /\ a # b
          /\ IdsOf(q_lists[a]) \cap IdsOf(q_lists[b]) \cap IdsOf(q_docs) # {}

\* the variants' results, concatenated in variant order
C5_Concatenated == all_results(q_lists)

\* C5: the documents RAGQueryEngine.query returns are the first top_k of the
\* variants' result lists concatenated in variant order, deduplicated by id
\* keeping the first occurrence, sorted by descending score: as many as
\* min(top_k, number of distinct ids), each id once, each the first occurrence
\* of its id, scores non-increasing, and no left-out id with a higher score
\* than a returned one.
C5_EngineTopK ==
    q_op = "engine_query"
        => /\ Len(q_docs) = Min(q_top_k, Cardinality(IdsOf(C5_Concatenated)))
           /\ \A i, j \in 1..Len(q_docs) : i # j => q_docs[i].id # q_docs[j].id
           /\ \A i \in 1..Len(q_docs) :
                 /\ q_docs[i].id \in IdsOf(C5_Concatenated)
                 /\ q_docs[i] = FirstWithId(C5_Concatenated, q_docs[i].id)
           /\ NonIncreasingScores(q_docs)
           /\ \A id \in IdsOf(C5_Concatenated) \ IdsOf(q_docs) :
                 \A i \in 1..Len(q_docs) :
                     FirstWithId(C5_Concatenated, id).score <= q_docs[i].score

\* a call where an id came back twice with different scores, the sort moved
\* a later result to the front, and top_k cut the list
C5_Witness ==
    /\ q_op = "engine_query"
    /\ \E i, j \in 1..Len(C5_Concatenated) :
          /\ i < j
          /\ C5_Concatenated[i].id = C5_Concatenated[j].id
          /\ C5_Concatenated[i].score # C5_Concatenated[j].score
    /\ q_docs # << >>
    /\ q_docs[1] # C5_Concatenated[1]
    /\ Len(q_docs) < Cardinality(IdsOf(C5_Concatenated))

\* C10: the list a connector's query returns, Chroma's or Pinecone's, has
\* non-increasing scores from first to last.
C10_ConnectorScoresNonIncreasing ==
    q_op # "idle"
        => \A v \in 1..Len(q_lists) : NonIncreasingScores(q_lists[v])

------------------------------------------------------------------------------
(* Properties of failures *)

\* C11: a cache operation whose I/O fails answers with a miss (get) or a
\* failure value (store, invalidate, clear, get_stats), and a
\* process_document call during which every cache operation fails still
\* embeds, upserts and returns the ids it stored.
C11_CacheFailuresNonFatal ==
    /\ (last.op = "get" /\ ~last.clean) => ~last.doc.found
    /\ (last.op \in {"store", "clear", "get_stats"} /\ ~last.clean) => ~last.ok
    /\ (last.op = "invalidate" /\ ~last.clean /\ last.cached_before)
          => ~last.ok
    /\ (last.op = "process_document" /\ last.cache_down
            /\ last.doc_id \in PipeIds)
          => /\ ~last.cache_hit
             /\ last.embed_calls = 1 /\ last.upsert_calls = 1
             /\ last.result # << >>
             /\ \A i \in DOMAIN last.result : last.result[i] = last.doc_id
             /\ stored_in_active(current_connector, backends, last.doc_id)

\* an ingestion that found a cache file it could not read and could not
\* write a new one, and stored the document
C11_Witness ==
    /\ last.op = "process_document" /\ last.cache_down
    /\ last.cached_before
    /\ last.result # << >>
    /\ stored_in_active(current_connector, backends, last.doc_id)

\* C12: the batch embedding (a provider's generate_batch and
\* EmbeddingService.generate_embeddings) returns one vector per input text, in
\* input order, whatever the backend does and also without a provider: the
\* embedding of the i-th text when the call succeeds, a zero vector of the
\* provider's dimension when it fails
C12_OneVectorPerText ==
    emb_call.op \in {"generate_batch", "generate_embeddings"}
    => /\ Len(emb_call.vectors) = Len(emb_call.texts)
       /\ \A i \in DOMAIN emb_call.vectors :
             /\ emb_call.vectors[i].dim = dimension(current_model)
             /\ IF emb_call.call_ok /\ current_model # "none"
                THEN emb_call.vectors[i].kind = "vector"
                     /\ emb_call.vectors[i].of = emb_call.texts[i]
                ELSE emb_call.vectors[i].kind = "zero"

\* the part that holds: with a provider loaded the batch is length-preserving
\* and ordered, and a failed call yields zero vectors of the dimension
C12_WithProvider ==
    (emb_call.op \in {"generate_batch", "generate_embeddings"}
     /\ current_model # "none")
    => /\ Len(emb_call.vectors) = Len(emb_call.texts)
       /\ \A i \in DOMAIN emb_call.vectors :
             IF emb_call.call_ok
             THEN emb_call.vectors[i] =
                      Embedding(dimension(current_model), emb_call.texts[i])
             ELSE emb_call.vectors[i] = ZeroVector(dimension(current_model))

\* C13: selecting a name outside the registered set (set_model, switch_db or
\* the selection of __init__ from configuration) answers with a failure, and
\* after such a call on an existing service / manager the provider, the
\* connector, the recorded type name and the connection state are what they
\* were before
C13_UnknownNameFailsFast ==
    /\ (emb_call.op \in {"__init__", "set_model"}
        /\ emb_call.name \notin ModelNames)
       => /\ ~emb_call.ok
          /\ emb_call.op = "set_model"
                => /\ current_model = emb_call.model_before
                   /\ model_type = emb_call.type_before
    /\ (m_call.op \in {"__init__", "switch_db"} /\ m_pc = "idle"
        /\ m_call.name \notin DbTypes)
       => /\ ~m_call.ok
          /\ m_call.op = "switch_db"
                => /\ current_connector = m_call.conn_before
                   /\ db_type = m_call.type_before

\* the part that holds: set_model and switch_db with an unregistered name
\* return False and change nothing
C13_ExistingUnchanged ==
    /\ (emb_call.op = "set_model" /\ emb_call.name \notin ModelNames)
       => /\ ~emb_call.ok
          /\ current_model = emb_call.model_before
          /\ model_type = emb_call.type_before
    /\ (m_call.op = "switch_db" /\ m_pc = "idle" /\ m_call.name \notin DbTypes)
       => /\ ~m_call.ok
          /\ current_connector = m_call.conn_before
          /\ db_type = m_call.type_before

\* the connectors created by the manager that are in the connected state
ConnectedConnectors ==
    {d \in m_dropped \cup {current_connector} : d.is_connected}

\* C14: after any sequence of switch_db calls the manager holds exactly one
\* connector, and during every switch the previous connector is disconnected
\* before the new one is created and connected, so that at most one connector
\* the manager created is connected at any time
C14_ExactlyOneConnector ==
    /\ (m_pc = "idle" /\ m_call.op = "switch_db")
          => current_connector.kind # "none"
    /\ m_pc \in {"create", "connect"} => ~current_connector.is_connected
    /\ \A d \in m_dropped : ~d.is_connected
    /\ Cardinality(ConnectedConnectors) <= 1

\* the part that holds: the order of a switch, and what a switch that returns
\* True leaves behind
C14_DisconnectedFirst ==
    /\ m_pc \in {"create", "connect"} => ~current_connector.is_connected
    /\ \A d \in m_dropped : ~d.is_connected
    /\ Cardinality(ConnectedConnectors) <= 1
    /\ (m_pc = "idle" /\ m_call.op = "switch_db" /\ m_call.ok)
          => /\ current_connector = [kind |-> m_call.name, is_connected |-> TRUE]
             /\ db_type = m_call.name

\* C15: the id list store_embeddings returns is the list of the ids the call
\* wrote into the backend, also when a later batch fails after earlier ones
\* were written
C15_ReturnsStoredIds ==
    k_call.op = "store_embeddings" => k_call.ids = k_call.written

\* the part that holds: a call in which no backend call raises returns the
\* ids of all its documents and all are in the backend; Chroma's single call
\* writes all or nothing
C15_CleanOrChroma ==
    /\ (k_call.op = "store_embeddings" /\ current_connector.kind = "chroma")
          => k_call.ids = k_call.written
    /\ (k_call.op = "store_embeddings" /\ k_call.call_ok)
          => /\ k_call.ids = k_call.written
             /\ \A i \in DOMAIN k_call.ids :
                   k_call.ids[i] \in
                       DOMAIN backends[current_connector.kind].items

\* C16: connect() with the backend answering leaves the connector connected,
\* the collection / index existing (created when it was absent) and returns
\* True, on a fresh connector and again on a connected one
C16_ConnectCreates ==
    (k_call.op = "connect" /\ k_call.call_ok)
    => /\ k_call.ok
       /\ current_connector.is_connected
       /\ backends[current_connector.kind].exists

\* the part that holds: Chroma creates its collection, and both connectors
\* connect, also repeatedly, to what exists
C16_ChromaOrExisting ==
    (k_call.op = "connect" /\ k_call.call_ok
     /\ (current_connector.kind = "chroma" \/ k_call.existed_before))
    => /\ k_call.ok
       /\ current_connector.is_connected
       /\ backends[current_connector.kind].exists

\* C17: when every embedding call and every vector-store call of a
\* RAGQueryEngine.query fails, the call returns its result, with the query,
\* the processed query, no documents and the no-results message for the
\* query as enhanced context
C17_EngineSurvivesFailures ==
    (q_op = "engine_query" /\ q_failed)
    => /\ DOMAIN q_result = {"query", "processed_query", "enhanced_context"}
       /\ q_result.query \in EngineQueries
       /\ q_result.processed_query = process_query(q_result.query)
       /\ q_docs = << >>
       /\ q_result.enhanced_context = no_results(q_result.query)

\* such a call with more than one variant, against a store that holds
\* documents
C17_Witness ==
    /\ q_op = "engine_query" /\ q_failed
    /\ Len(q_lists) > 1
    /\ ActiveItems # << >>
    /\ q_result.enhanced_context # << >>

------------------------------------------------------------------------------
(* Properties of the query processor *)

NoDuplicates(xs) == \A i, j \in 1..Len(xs) : i # j => xs[i] # xs[j]

\* the position of the first occurrence of x in xs
FirstAt(xs, x) ==
    CHOOSE i \in 1..Len(xs) : xs[i] = x /\ \A j \in 1..(i - 1) : xs[j] # x

\* C18: with expansion enabled expand_query(q) has no string twice, lists
\* the variants in the order in which the rules first produced them, and
\* starts with process_query(q)
C18_ExpansionUniqueOrdered ==
    (p_pc = "expanded" /\ p_expand)
    => LET produced == variants(process_query(p_query))
       IN  /\ NoDuplicates(p_out)
           /\ p_out # << >>
           /\ p_out[1] = process_query(p_query)
           /\ {p_out[i] : i \in 1..Len(p_out)}
                 = {produced[i] : i \in 1..Len(produced)}
           /\ \A i, j \in 1..Len(p_out) :
                 i < j => FirstAt(produced, p_out[i]) < FirstAt(produced, p_out[j])

\* a query for which a rule produced a string a second time, and the list
\* has more than one variant
C18_Witness ==
    /\ p_pc = "expanded" /\ p_expand
    /\ Len(variants(process_query(p_query))) > Len(p_out)
    /\ Len(p_out) > 1

\* C19: with expansion disabled expand_query(q) is the one-element list of
\* the processed query
C19_DisabledReturnsProcessed ==
    (p_pc = "expanded" /\ ~p_expand) => p_out = << process_query(p_query) >>

\* what holds instead: the one-element list of the query as it was passed
C19_DisabledReturnsQuery ==
    (p_pc = "expanded" /\ ~p_expand) => p_out = << p_query >>

------------------------------------------------------------------------------
(* Properties of concurrent ingestion *)

BothDone == \A p \in Calls : cc_pc[p] = "done"

\* the item the upsert of call p writes under the id
ItemOf(p) == write_items(<< >>, cc_local[p].docs)[ConcDocId]

\* C20: two concurrent process_document calls with the same text and
\* metadata both return the same id under every interleaving of their steps,
\* the store then holds exactly one entry, under that id, and it is the one
\* the later upsert wrote
C20_LastUpsertWins ==
    BothDone
    => /\ \A p \in Calls :
             /\ cc_local[p].result # << >>
             /\ \A i \in DOMAIN cc_local[p].result :
                   cc_local[p].result[i] = ConcDocId
       /\ DOMAIN ActiveItems = {ConcDocId}
       /\ ActiveItems[ConcDocId] = ItemOf(cc_upserts[Len(cc_upserts)])

\* the part that holds: both calls complete, the store holds one entry,
\* under that id, written by one of the upserts, and the call of the first
\* upsert returns the id; with Pinecone both return it and the entry is the
\* later upsert's
C20_OneEntryPineconeLast ==
    BothDone
    => /\ DOMAIN ActiveItems = {ConcDocId}
       /\ \E i \in DOMAIN cc_upserts :
             ActiveItems[ConcDocId] = ItemOf(cc_upserts[i])
       /\ cc_local[cc_upserts[1]].result # << >>
       /\ \A p \in Calls : \A i \in DOMAIN cc_local[p].result :
             cc_local[p].result[i] = ConcDocId
       /\ current_connector.kind = "pinecone"
             => /\ \A p \in Calls : cc_local[p].result # << >>
                /\ ActiveItems[ConcDocId] = ItemOf(cc_upserts[Len(cc_upserts)])

------------------------------------------------------------------------------
(* Properties of the enhancer's truncation *)

\* the full blocks of the first k documents, in ranking order
RECURSIVE FullBlocks(_, _)
FullBlocks(docs, k) ==
    IF k = 0 THEN << >>
    ELSE FullBlocks(docs, k - 1) \o doc_info(k - 1, docs[k])

\* the position of the first document whose full block overflows the budget
\* (Len(docs) + 1 when every block fits)
FirstOverflow(query, docs, maxlen) ==
    LET over == {k \in 1..Len(docs) :
                    Len(context_header(query) \o FullBlocks(docs, k)) > maxlen}
    IN  IF over = {} THEN Len(docs) + 1
        ELSE CHOOSE k \in over : \A j \in over : k <= j

\* the characters of the budget left for the content of the k-th block
RemainingBudget(query, docs, maxlen, k) ==
    maxlen - Len(context_header(query) \o FullBlocks(docs, k - 1))
           - (Len(doc_info(k - 1, docs[k])) - Len(docs[k].text))

\* the k-th block with its content cut to n characters and the marker
TruncatedBlock(docs, k, n) ==
    doc_info(k - 1, [docs[k] EXCEPT !.text = Slice(@, 0, n) \o S_Ellipsis])

\* the output the rule gives when a block is truncated if at least `floor`
\* characters remain for its content
PrefixThenTruncated(query, docs, maxlen, floor) ==
    LET k == FirstOverflow(query, docs, maxlen)
    IN  context_header(query) \o FullBlocks(docs, k - 1)
            \o (IF k <= Len(docs)
                     /\ RemainingBudget(query, docs, maxlen, k) >= floor
                THEN TruncatedBlock(docs, k,
                                    RemainingBudget(query, docs, maxlen, k))
                ELSE << >>)

\* C22: enhance emits the full blocks of the results before the first one
\* that overflows the budget, then that block with its content truncated to
\* the remaining budget and the marker if at least 100 characters remain
\* (else nothing), and no later result
C22_TruncateAtFloor ==
    (e_pc = "done" /\ e_docs # << >>)
    => e_out = PrefixThenTruncated(e_query, e_docs, e_max, TruncationFloor)

\* the part that holds: the same with the block truncated only if more than
\* 100 characters remain
C22_TruncateAboveFloor ==
    (e_pc = "done" /\ e_docs # << >>)
    => e_out = PrefixThenTruncated(e_query, e_docs, e_max, TruncationFloor + 1)

------------------------------------------------------------------------------
(* Properties of the chunker's split point and of its termination *)

\* the spans of the windows that did not reach end-of-text: every span the
\* loop has appended, but the last one of a call that has returned
SplitSpans ==
    IF c_pc = "done" THEN SubSeq(c_spans, 1, Len(c_spans) - 1) ELSE c_spans

\* the split point of span sp lies in the last min(100, window length)
\* characters of its window and the chunk is not empty
InsideWindow(sp, size) ==
    /\ sp[1] + size - Min(LookBack, size) < sp[2]
    /\ sp[2] <= sp[1] + size
    /\ sp[1] < sp[2]

\* C23: for every chunk_size and every window [start, start + chunk_size)
\* that does not reach end-of-text, the split point lies inside the window,
\* within its last min(100, window length) characters, so the chunk is a
\* non-empty substring of the window
C23_SplitInsideWindow ==
    \A i \in 1..Len(SplitSpans) :
        /\ InsideWindow(SplitSpans[i], c_size)
        /\ c_chunks[i] = Slice(c_text, SplitSpans[i][1], SplitSpans[i][2])
        /\ c_chunks[i] # << >>

\* the part that holds: the same for chunk_size >= 100 and, for any
\* chunk_size, for the first window (start = 0)
C23_SplitInsideLargeOrFirst ==
    \A i \in 1..Len(SplitSpans) :
        (c_size >= LookBack \/ SplitSpans[i][1] = 0)
        => /\ InsideWindow(SplitSpans[i], c_size)
           /\ c_chunks[i] = Slice(c_text, SplitSpans[i][1], SplitSpans[i][2])
           /\ c_chunks[i] # << >>

\* the window starts of the iterations so far, with the start of the next one
\* while the loop runs
WindowStarts ==
    [i \in 1..Len(c_spans) |-> c_spans[i][1]]
        \o (IF c_pc = "loop" THEN << c_start >> ELSE << >>)

StrictlyIncreasing(xs) == \A i \in 1..(Len(xs) - 1) : xs[i] < xs[i + 1]

\* C27: for every text and every configuration with 0 <= chunk_overlap <
\* chunk_size, the window start strictly increases on every loop iteration
\* (so chunk_text terminates)
C27_StartStrictlyIncreases ==
    (0 <= c_overlap /\ c_overlap < c_size) => StrictlyIncreasing(WindowStarts)

\* the part that holds: the same for the configurations with chunk_overlap +
\* 100 <= chunk_size, which then return after at most len(text) iterations
C27_IncreasesWithRoom ==
    (0 <= c_overlap /\ c_overlap + LookBack <= c_size)
    => /\ StrictlyIncreasing(WindowStarts)
       /\ Len(c_chunks) <= Len(c_text)

------------------------------------------------------------------------------
(* Properties of process_query *)

\* s has no upper-case letter and only word characters, whitespace, "?", "."
LowercaseAllowed(s) ==
    \A i \in 1..Len(s) :
        /\ s[i] \notin DOMAIN UpperToLower
        /\ s[i] \in WordChars \cup Whitespace \cup {"?", "."}

NoWhitespaceRun(s) ==
    \A i \in 1..(Len(s) - 1) : ~(s[i] \in Whitespace /\ s[i + 1] \in Whitespace)

\* s has a character that process_query replaces by a space
HasSpecial(s) ==
    \E i \in 1..Len(s) : s[i] \notin WordChars \cup Whitespace \cup {"?", "."}

\* C26: process_query is idempotent, its output is lowercase, has only word
\* characters, whitespace, "?" and ".", and no run of two or more whitespace
\* characters; so the first variant that expand_query gives for the
\* processed query (the first one the engine searches) is the processed query
C26_ProcessQueryIdempotent ==
    p_pc = "processed"
    => /\ process_query(p_out[1]) = p_out[1]
       /\ LowercaseAllowed(p_out[1])
       /\ NoWhitespaceRun(p_out[1])
       /\ expand_query(p_out[1], TRUE)[1] = p_out[1]

\* the part that holds: the output is lowercase with only the allowed
\* characters; for a query without a replaced character it is a fixed point
\* without whitespace runs and the first variant; for any query the second
\* application gives a fixed point
C26_IdempotentWithoutSpecial ==
    p_pc = "processed"
    => /\ LowercaseAllowed(p_out[1])
       /\ process_query(process_query(process_query(p_out[1])))
              = process_query(process_query(p_out[1]))
       /\ ~HasSpecial(p_query)
             => /\ process_query(p_out[1]) = p_out[1]
                /\ NoWhitespaceRun(p_out[1])
                /\ expand_query(p_out[1], TRUE)[1] = p_out[1]

------------------------------------------------------------------------------
(* Properties of the ids the pipeline stores under *)

\* the chunks of the text of the last process_document call (its id holds
\* the text)
LastChunks == chunk_text(last.doc_id[2], PipeChunkSize, PipeChunkOverlap)

\* the last call ingested a text of several chunks and the store took them
IngestedSeveralChunks ==
    /\ last.op = "process_document"
    /\ ~last.cache_hit
    /\ Len(LastChunks) > 1
    /\ last.result # << >>

\* C29: when process_document ingests a text of n > 1 chunks, the chunks are
\* upserted under n pairwise distinct ids: the returned list names n distinct
\* entries of the store, one for every chunk
C29_DistinctChunkIds ==
    IngestedSeveralChunks
    => /\ Len(last.result) = Len(LastChunks)
       /\ \A i, j \in DOMAIN last.result :
             i # j => last.result[i] # last.result[j]
       /\ \A i \in DOMAIN last.result :
             /\ last.result[i] \in DOMAIN ActiveItems
             /\ ActiveItems[last.result[i]].text = LastChunks[i]

\* what holds instead: the returned list has the document's id n times and
\* the store holds one entry under it, with the text of one chunk
C29_ChunksShareDocumentId ==
    IngestedSeveralChunks
    => /\ Len(last.result) = Len(LastChunks)
       /\ \A i \in DOMAIN last.result : last.result[i] = last.doc_id
       /\ last.doc_id \in DOMAIN ActiveItems
       /\ \E i \in DOMAIN LastChunks :
             ActiveItems[last.doc_id].text = LastChunks[i]

------------------------------------------------------------------------------
(* Properties of a switch that fails *)

\* switch_db with a registered name has returned False
RegisteredSwitchFailed ==
    /\ m_pc = "idle"
    /\ m_call.op = "switch_db"
    /\ m_call.name \in DbTypes
    /\ ~m_call.ok

\* C30: if switch_db(name) with a registered name returns False because the
\* new connector cannot be created or cannot connect, the manager's state is
\* unchanged: the previously active connector is still the active one, as
\* connected as it was, and get_db_type reports the previous type
C30_FailedSwitchUnchanged ==
    RegisteredSwitchFailed
    => /\ current_connector = m_call.conn_before
       /\ db_type = m_call.type_before

\* what holds instead: no connector of the manager is connected after the
\* failed switch; if the constructor raised, the previous connector is still
\* the current one, disconnected, under the previous type; otherwise the
\* current connector is the new one, not connected, and the type is the new
\* name
C30_FailedSwitchDisconnects ==
    RegisteredSwitchFailed
    => /\ ~current_connector.is_connected
       /\ \/ /\ current_connector.kind = m_call.conn_before.kind
             /\ db_type = m_call.type_before
          \/ /\ current_connector = NewConnector(m_call.name)
             /\ db_type = m_call.name

------------------------------------------------------------------------------
(* Properties of what process_document reports as stored *)

\* process_document has returned a non-empty id list
ReturnedIds == last.op = "process_document" /\ last.result # << >>

\* C28: whenever process_document returns a non-empty id list, every
\* returned id is in the active vector store at the moment of return, after
\* any sequence of process_document, delete_document and switch_db calls and
\* of failed upserts, the cache-hit path included
C28_ReturnedIdsStored ==
    ReturnedIds
    => \A i \in DOMAIN last.result : last.result[i] \in DOMAIN ActiveItems

\* the part that holds: the same for the calls that are not cache hits
C28_MissPathIdsStored ==
    (ReturnedIds /\ ~last.cache_hit)
    => \A i \in DOMAIN last.result : last.result[i] \in DOMAIN ActiveItems

------------------------------------------------------------------------------
(* Properties of a query in flight during a switch *)

\* the connector types the query can meet: the one before the switch and the
\* one the switch asks for
OldKind == r_objs[1].kind

NewKind == IF r_sw.pc = "idle" THEN OldKind ELSE r_sw.name

\* C21: a query in flight while switch_db (or set_model) runs observes either
\* the old or the new connector / provider: under every interleaving its
\* result is the result the old one or the new one returns for the query,
\* never a third outcome caused by the switch
C21_OldOrNewResult ==
    r_q.pc = "done"
    => /\ r_q.results \in {ResultOf(OldKind), ResultOf(NewKind)}
       /\ r_q.model \in ModelNames

\* the part that holds: the query meets the old or the new connector and the
\* old or the new provider, and its result is that connector's result unless
\* the connector was disconnected between the query's check of is_connected
\* and its backend call, when the result is the empty list
C21_OldNewOrEmpty ==
    r_q.pc = "done"
    => /\ r_q.ref \in {1, 2}
       /\ r_q.model \in ModelNames
       /\ IF r_q.raced THEN r_q.results = << >> /\ r_q.ref = 1
          ELSE r_q.results = ResultOf(r_objs[r_q.ref].kind)

------------------------------------------------------------------------------
(* Properties of the metadata passed to Pinecone *)

\* every value is a scalar or a list of strings
IsFlat(metadata) ==
    \A k \in DOMAIN metadata : metadata[k].kind \in SimpleKinds

\* the deepest nesting of the document's metadata
MetaDepth ==
    SetMax({0} \cup {DepthOf(f_doc.metadata[i][2]) : i \in 1..Len(f_doc.metadata)})

\* every value inside a nested dict of the document is a simple one
SimpleChildren ==
    \A i \in 1..Len(f_doc.metadata) :
        LET v == f_doc.metadata[i][2]
        IN  v.kind = "dict"
            => \A j \in 1..Len(v.items) : v.items[j][2].kind \in SimpleKinds

\* C25: every metadata mapping the Pinecone connector passes to its backend
\* is flat, for source metadata nested to any depth: each stored value is a
\* scalar or a list of strings
C25_MetadataFlat ==
    f_pc = "done" => IsFlat(f_out)

\* the part that holds: metadata nested one level with simple values inside
\* is stored flat, each nested entry parent -> {child: v} under parent_child
\* with value v (the last writer of a key wins, and a non-empty text is
\* stored under 'text'), and the chunker's chunk entry becomes chunk_index
\* and chunk_total
C25_OneLevelFlat ==
    (f_pc = "done" /\ SimpleChildren)
    => /\ IsFlat(f_out)
       /\ \A i \in 1..Len(f_doc.metadata) :
             LET k == f_doc.metadata[i][1]
                 v == f_doc.metadata[i][2]
             IN  /\ (v.kind = "dict" /\ ~(k = "text" /\ f_doc.text # << >>))
                       => k \notin DOMAIN f_out
                 /\ v.kind = "dict"
                       => \A j \in 1..Len(v.items) :
                             /\ (k \o "_" \o v.items[j][1]) \in DOMAIN f_out
                             /\ \/ f_out[k \o "_" \o v.items[j][1]] = v.items[j][2]
                                \/ \E m \in (i + 1)..Len(f_doc.metadata) :
                                      f_doc.metadata[m][1] = k \o "_" \o v.items[j][1]
       /\ (\E i \in 1..Len(f_doc.metadata) : f_doc.metadata[i] = <<"chunk", ChunkEntry>>)
             => /\ f_out["chunk_index"] = Value("int", "0")
                /\ f_out["chunk_total"] = Value("int", "2")

------------------------------------------------------------------------------
(* Properties of the calls one process_documents(list) makes *)

\* the texts of the chunks of all documents, in order
RECURSIVE AllChunkTexts(_)
AllChunkTexts(documents) ==
    IF documents = << >> THEN << >>
    ELSE chunk_text(Head(documents).text, PipeChunkSize, PipeChunkOverlap)
             \o AllChunkTexts(Tail(documents))

\* the positions of the calls of one kind in the trace
CallsOf(op) == {i \in 1..Len(b_trace) : b_trace[i].op = op}

\* the documents of the call that carry an id
Originals == {b_docs[i] : i \in {j \in 1..Len(b_docs) : b_docs[j].id # NoId}}

\* C24: one process_documents(list) call with a non-empty list issues
\* exactly one embedding-batch call covering the chunks of all documents,
\* then exactly one store call, and only after it writes to the cache: the
\* pre-chunk originals that carry a caller-supplied id, each of them once
\* per occurrence, never a chunk and never a document without id
C24_OneEmbedOneStoreThenCache ==
    /\ \A i \in CallsOf("embed") : i = 1
    /\ \A i \in CallsOf("store") : i = 2
    /\ \A i \in CallsOf("cache") :
          /\ i >= 3
          /\ b_trace[i].doc \in Originals
    /\ (b_pc = "done" /\ b_docs # << >>)
         => /\ Len(b_trace) >= 2
            /\ b_trace[1] = EmbedEvent(AllChunkTexts(b_docs))
            /\ b_trace[2].op = "store"
            /\ [i \in 1..Len(b_trace[2].docs) |-> b_trace[2].docs[i].text]
                   = AllChunkTexts(b_docs)
            /\ Cardinality(CallsOf("cache"))
                   = IF b_cache
                     THEN Cardinality({j \in 1..Len(b_docs) : b_docs[j].id # NoId})
                     ELSE 0

\* a call with a cache returned for two documents, one of several chunks
\* with an id and one with a text and without id, and wrote to the cache
C24_Witness ==
    /\ b_pc = "done"
    /\ b_cache
    /\ Len(b_docs) >= 2
    /\ \E i, j \in 1..Len(b_docs) :
          /\ b_docs[i].id # NoId
          /\ Len(chunk_text(b_docs[i].text, PipeChunkSize, PipeChunkOverlap)) > 1
          /\ b_docs[j].id = NoId
          /\ b_docs[j].text # << >>
    /\ CallsOf("cache") # {}
    /\ b_ids # << >>

==============================================================================
